---- MODULE Spec2Model ----
(***************************************************************************)
(* Semantic Core Language Model (SCLM): the knowledge engines, the         *)
(* response engines and the dialogue managers of the repository, as state  *)
(* machines.                                                               *)
(*                                                                         *)
(*   kg9    the knowledge table of sclm_phase_9_knowledge.py               *)
(*   kg10   the knowledge table of sclm_phase_10_interactive_graph.py      *)
(*   clock  datetime.now(), as a logical clock that ticks on every write   *)
(*   last   the most recent call: its arguments, its result and the table  *)
(*          it started from                                                *)
(*   prev   the call before it                                             *)
(*   connection   the engine's sqlite3 connection, "open" or "closed"      *)
(*   learning     the learn_fact calls in flight on a database file that   *)
(*                several engines are connected to                         *)
(*   manager      the DialogueManager that was constructed                 *)
(*   pc           the line handle_message / get_response is at             *)
(*   thought      the dict the turn in progress passes along               *)
(*   conversation_history   DialogueManager.conversation_history           *)
(*   turns        the calls of handle_message / get_response that ended    *)
(*                                                                         *)
(* Strings are TLA+ strings over a small universe; str.lower() is the      *)
(* table Lower.  A table is the sequence of its rows in rowid order.       *)
(***************************************************************************)
EXTENDS Integers, Sequences, FiniteSets, TLC

VARIABLES kg9, kg10, clock, last, prev, connection, learning,
          manager, pc, thought, conversation_history, turns

vars == <<kg9, kg10, clock, last, prev, connection, learning,
          manager, pc, thought, conversation_history, turns>>

\* the state of a dialogue manager with a history
dialogueVars == <<manager, pc, thought, conversation_history, turns>>

\* no dialogue manager with a history was constructed
NoDialogue ==
    /\ manager = "none"
    /\ pc = "idle"
    /\ thought = "<None>"
    /\ conversation_history = <<>>
    /\ turns = 0

\* one engine, constructed and not closed, called by one caller
OneEngine ==
    /\ connection = "open"
    /\ learning = <<>>

-----------------------------------------------------------------------------
(* Bounds of the model.                                                    *)

\* writes (INSERT / INSERT OR REPLACE by learn_fact) explored per run
MaxWrites == 2

-----------------------------------------------------------------------------
(* Strings.                                                                *)

None == "<None>"

\* str.lower() on the strings of the model
Lower(s) ==
    CASE s = "Car" -> "car"
      [] s = "Ball" -> "ball"
      [] s = "France" -> "france"
      [] s = "Shape" -> "shape"
      [] s = "Has_Part" -> "has_part"
      [] s = "Square" -> "square"
      [] s = "Door" -> "door"
      [] s = "Paris" -> "paris"
      [] s = "It" -> "it"
      [] s = "IT" -> "it"
      [] OTHER -> s

\* the arguments the calls are explored with
Subjects == {"ball", "car", "Car"}
Relationships == {"shape", "has_part"}
Facts == {"round", "door", "Door"}

-----------------------------------------------------------------------------
(* Rows and tables.                                                        *)

Row(s, r, f, imm, src, ts) ==
    [subject |-> s, relationship |-> r, fact |-> f,
     is_immutable |-> imm, source |-> src, timestamp |-> ts]

\* SELECT ... FROM knowledge WHERE subject = s AND relationship = r
SelectKey(kb, s, r) ==
    SelectSeq(kb, LAMBDA x : x.subject = s /\ x.relationship = r)

\* [row[0] for row in cursor.fetchall()]
FactsOf(rows) == [i \in DOMAIN rows |-> rows[i].fact]

-----------------------------------------------------------------------------
(* sclm_phase_9_knowledge.py: KnowledgeGraphEngine                         *)

KG9_singular_relationships == {"shape", "capital"}

KG9_constants ==
    << <<"ball", "shape", "round">>,
       <<"ball", "can_be_action", "thrown">>,
       <<"ball", "can_be_action", "caught">>,
       <<"car", "has_part", "engine">>,
       <<"car", "has_part", "wheel">>,
       <<"France", "capital", "Paris">> >>

\* _initialize_database: the constants go in only when the table is empty
KG9_initialize_database(kb, clk) ==
    IF Len(kb) = 0
    THEN [kb |-> [i \in 1..Len(KG9_constants) |->
                    Row(Lower(KG9_constants[i][1]), Lower(KG9_constants[i][2]),
                        KG9_constants[i][3], TRUE, "System_Constant", clk + i)],
          clock |-> clk + Len(KG9_constants)]
    ELSE [kb |-> kb, clock |-> clk]

\* query_facts with the arguments compared as they were given
KG9_query_facts_no_lower(kb, subject, relationship) ==
    FactsOf(SelectKey(kb, subject, relationship))

KG9_query_facts(kb, subject, relationship) ==
    FactsOf(SelectKey(kb, Lower(subject), Lower(relationship)))

\* learn_fact without the conflict check of the singular relationships
KG9_learn_fact_no_conflict(kb, clk, subject, relationship, fact, source) ==
    LET existing_facts == SelectKey(kb, Lower(subject), Lower(relationship))
    IN  IF /\ existing_facts # <<>>
           /\ \E i \in DOMAIN existing_facts :
                  Lower(fact) = Lower(existing_facts[i].fact)
        THEN [result |-> "ALREADY_KNOWN", kb |-> kb, clock |-> clk]
        ELSE [result |-> "LEARNED_SUCCESSFULLY",
              kb |-> Append(kb, Row(Lower(subject), Lower(relationship), fact,
                                    FALSE, source, clk + 1)),
              clock |-> clk + 1]

\* learn_fact without the loop that finds the fact among the existing ones
KG9_learn_fact_no_dedup(kb, clk, subject, relationship, fact, source) ==
    LET existing_facts == SelectKey(kb, Lower(subject), Lower(relationship))
    IN  IF /\ existing_facts # <<>>
           /\ Lower(relationship) \in KG9_singular_relationships
           /\ existing_facts[1].is_immutable
        THEN [result |-> "CONFLICT_WITH_CONSTANT", kb |-> kb, clock |-> clk]
        ELSE [result |-> "LEARNED_SUCCESSFULLY",
              kb |-> Append(kb, Row(Lower(subject), Lower(relationship), fact,
                                    FALSE, source, clk + 1)),
              clock |-> clk + 1]

\* learn_fact that writes its row with the flag of a constant
KG9_learn_fact_immutable(kb, clk, subject, relationship, fact, source) ==
    LET existing_facts == SelectKey(kb, Lower(subject), Lower(relationship))
    IN  IF /\ existing_facts # <<>>
           /\ Lower(relationship) \in KG9_singular_relationships
           /\ existing_facts[1].is_immutable
        THEN [result |-> "CONFLICT_WITH_CONSTANT", kb |-> kb, clock |-> clk]
        ELSE IF /\ existing_facts # <<>>
                /\ \E i \in DOMAIN existing_facts :
                       Lower(fact) = Lower(existing_facts[i].fact)
        THEN [result |-> "ALREADY_KNOWN", kb |-> kb, clock |-> clk]
        ELSE [result |-> "LEARNED_SUCCESSFULLY",
              kb |-> Append(kb, Row(Lower(subject), Lower(relationship), fact,
                                    TRUE, source, clk + 1)),
              clock |-> clk + 1]

\* learn_fact that looks for the fact among the existing ones as it is
\* written, the case of its letters included
KG9_learn_fact_exact_fact(kb, clk, subject, relationship, fact, source) ==
    LET existing_facts == SelectKey(kb, Lower(subject), Lower(relationship))
    IN  IF /\ existing_facts # <<>>
           /\ Lower(relationship) \in KG9_singular_relationships
           /\ existing_facts[1].is_immutable
        THEN [result |-> "CONFLICT_WITH_CONSTANT", kb |-> kb, clock |-> clk]
        ELSE IF /\ existing_facts # <<>>
                /\ \E i \in DOMAIN existing_facts : fact = existing_facts[i].fact
        THEN [result |-> "ALREADY_KNOWN", kb |-> kb, clock |-> clk]
        ELSE [result |-> "LEARNED_SUCCESSFULLY",
              kb |-> Append(kb, Row(Lower(subject), Lower(relationship), fact,
                                    FALSE, source, clk + 1)),
              clock |-> clk + 1]

\* learn_fact whose new row comes before the rows of the table, so that the
\* SELECT returns the newest row first
KG9_learn_fact_newest_first(kb, clk, subject, relationship, fact, source) ==
    LET existing_facts == SelectKey(kb, Lower(subject), Lower(relationship))
    IN  IF /\ existing_facts # <<>>
           /\ Lower(relationship) \in KG9_singular_relationships
           /\ existing_facts[1].is_immutable
        THEN [result |-> "CONFLICT_WITH_CONSTANT", kb |-> kb, clock |-> clk]
        ELSE IF /\ existing_facts # <<>>
                /\ \E i \in DOMAIN existing_facts :
                       Lower(fact) = Lower(existing_facts[i].fact)
        THEN [result |-> "ALREADY_KNOWN", kb |-> kb, clock |-> clk]
        ELSE [result |-> "LEARNED_SUCCESSFULLY",
              kb |-> <<Row(Lower(subject), Lower(relationship), fact, FALSE,
                           source, clk + 1)>> \o kb,
              clock |-> clk + 1]

KG9_learn_fact(kb, clk, subject, relationship, fact, source) ==
    LET subj_lower == Lower(subject)
        rel_lower == Lower(relationship)
        fact_lower == Lower(fact)
        existing_facts == SelectKey(kb, subj_lower, rel_lower)
    IN  IF /\ existing_facts # <<>>
           /\ rel_lower \in KG9_singular_relationships
           /\ existing_facts[1].is_immutable
        THEN [result |-> "CONFLICT_WITH_CONSTANT", kb |-> kb, clock |-> clk]
        ELSE IF /\ existing_facts # <<>>
                /\ \E i \in DOMAIN existing_facts :
                       fact_lower = Lower(existing_facts[i].fact)
        THEN [result |-> "ALREADY_KNOWN", kb |-> kb, clock |-> clk]
        ELSE [result |-> "LEARNED_SUCCESSFULLY",
              kb |-> Append(kb, Row(subj_lower, rel_lower, fact, FALSE,
                                    source, clk + 1)),
              clock |-> clk + 1]

-----------------------------------------------------------------------------
(* sclm_phase_10_interactive_graph.py: KnowledgeGraphEngine                *)

KG10_singular_relationships == {"shape", "capital", "state"}

KG10_constants ==
    << <<"ball", "shape", "round">>, <<"France", "capital", "Paris">> >>

\* _initialize_database: DROP TABLE IF EXISTS, CREATE TABLE with
\* UNIQUE(subject, relationship), then the constants (the table is empty)
KG10_initialize_database(kb, clk) ==
    [kb |-> [i \in 1..Len(KG10_constants) |->
                Row(Lower(KG10_constants[i][1]), Lower(KG10_constants[i][2]),
                    KG10_constants[i][3], TRUE, "System_Constant", clk + i)],
     clock |-> clk + Len(KG10_constants)]

KG10_query_facts(kb, subject, relationship) ==
    FactsOf(SelectKey(kb, Lower(subject), Lower(relationship)))

\* INSERT OR REPLACE under UNIQUE(subject, relationship): the row of the key
\* is deleted and the new row gets a fresh rowid
InsertOrReplace(kb, row) ==
    Append(SelectSeq(kb, LAMBDA x : ~(x.subject = row.subject
                                      /\ x.relationship = row.relationship)),
           row)

\* learn_fact without the test of the immutable flag
KG10_learn_fact_no_flag(kb, clk, subject, relationship, fact, source) ==
    LET found == SelectKey(kb, Lower(subject), Lower(relationship))
    IN  [result |-> IF found # <<>> THEN "UPDATED_BELIEF"
                    ELSE "LEARNED_SUCCESSFULLY",
         kb |-> InsertOrReplace(kb, Row(Lower(subject), Lower(relationship),
                                        fact, FALSE, source, clk + 1)),
         clock |-> clk + 1]

KG10_learn_fact(kb, clk, subject, relationship, fact, source) ==
    LET s_lower == Lower(subject)
        r_lower == Lower(relationship)
        found == SelectKey(kb, s_lower, r_lower)
        immutable_flag == found # <<>> /\ found[1].is_immutable
        is_update == found # <<>>
    IN  IF immutable_flag
        THEN [result |-> "CONFLICT_WITH_CONSTANT", kb |-> kb, clock |-> clk]
        ELSE [result |-> IF is_update THEN "UPDATED_BELIEF"
                         ELSE "LEARNED_SUCCESSFULLY",
              kb |-> InsertOrReplace(kb, Row(s_lower, r_lower, fact, FALSE,
                                             source, clk + 1)),
              clock |-> clk + 1]

-----------------------------------------------------------------------------
(* The engines as programs: one engine is constructed, then called.        *)

NoCall == [op |-> "none"]

KG9Start == KG9_initialize_database(<<>>, 0)
KG10Start == KG10_initialize_database(<<>>, 0)

\* the engine that was constructed
Engine == IF kg9 # <<>> THEN "kg9" ELSE "kg10"

\* the table of the engine that was constructed
Store == IF Engine = "kg9" THEN kg9 ELSE kg10

\* rows written by learn_fact since construction
Writes == clock - (IF Engine = "kg9" THEN KG9Start.clock ELSE KG10Start.clock)

KG9Init ==
    /\ OneEngine
    /\ NoDialogue
    /\ kg9 = KG9Start.kb
    /\ kg10 = <<>>
    /\ clock = KG9Start.clock
    /\ last = NoCall
    /\ prev = NoCall

KG10Init ==
    /\ OneEngine
    /\ NoDialogue
    /\ kg9 = <<>>
    /\ kg10 = KG10Start.kb
    /\ clock = KG10Start.clock
    /\ last = NoCall
    /\ prev = NoCall

Call(op, engine, s, r, f, result, pre) ==
    [op |-> op, engine |-> engine, subject |-> s, relationship |-> r,
     fact |-> f, result |-> result, pre |-> pre]

KG9Learn(s, r, f) ==
    LET out == KG9_learn_fact(kg9, clock, s, r, f, "user")
    IN  /\ Engine = "kg9"
        /\ out.kb # kg9 => Writes < MaxWrites
        /\ kg9' = out.kb
        /\ clock' = out.clock
        /\ last' = Call("learn", "kg9", s, r, f, out.result, kg9)
        /\ prev' = last
        /\ UNCHANGED <<kg10, connection, learning, dialogueVars>>

KG9Query(s, r) ==
    /\ Engine = "kg9"
    /\ last' = Call("query", "kg9", s, r, None, KG9_query_facts(kg9, s, r), kg9)
    /\ prev' = last
    /\ UNCHANGED <<kg9, kg10, clock, connection, learning, dialogueVars>>

KG10Learn(s, r, f) ==
    LET out == KG10_learn_fact(kg10, clock, s, r, f, "user")
    IN  /\ Engine = "kg10"
        /\ out.kb # kg10 => Writes < MaxWrites
        /\ kg10' = out.kb
        /\ clock' = out.clock
        /\ last' = Call("learn", "kg10", s, r, f, out.result, kg10)
        /\ prev' = last
        /\ UNCHANGED <<kg9, connection, learning, dialogueVars>>

KG10Query(s, r) ==
    /\ Engine = "kg10"
    /\ last' = Call("query", "kg10", s, r, None, KG10_query_facts(kg10, s, r), kg10)
    /\ prev' = last
    /\ UNCHANGED <<kg9, kg10, clock, connection, learning, dialogueVars>>

KGInit == KG9Init \/ KG10Init

KGNext ==
    \/ \E s \in Subjects, r \in Relationships, f \in Facts : KG9Learn(s, r, f)
    \/ \E s \in Subjects, r \in Relationships : KG9Query(s, r)
    \/ \E s \in Subjects, r \in Relationships, f \in Facts : KG10Learn(s, r, f)
    \/ \E s \in Subjects, r \in Relationships : KG10Query(s, r)

SpecKG == KGInit /\ [][KGNext]_vars

\* the phase-9 engine called with one key and one fact in both spellings
CaseSubjects == {"car", "Car"}
CaseRelationships == {"has_part", "Has_Part"}
CaseFacts == {"door", "Door", "wheel"}

CaseNext ==
    \/ \E s \in CaseSubjects, r \in CaseRelationships, f \in CaseFacts :
           KG9Learn(s, r, f)
    \/ \E s \in CaseSubjects, r \in CaseRelationships : KG9Query(s, r)

SpecCase == KG9Init /\ [][CaseNext]_vars

-----------------------------------------------------------------------------
(* The life of an engine: close(), calls after close(), and a new engine   *)
(* constructed on the database file the closed one has left.               *)

\* what a method returns when it has no return statement
Returned == None

\* sqlite3 raises it on a cursor whose connection is closed
ProgrammingError == "sqlite3.ProgrammingError"

\* close() with a second close of the connection taken for an error
KG_close_once(conn) ==
    [connection |-> "closed",
     result |-> IF conn = "closed" THEN ProgrammingError ELSE Returned]

\* close(): self.connection is an object, so it is true, open or closed;
\* sqlite3's Connection.close() on a closed connection does nothing
KG_close(conn) == [connection |-> "closed", result |-> Returned]

\* a call of close(); the record keeps the connection it found as subject
KGClose ==
    LET out == KG_close(connection)
    IN  /\ connection' = out.connection
        /\ last' = Call("close", Engine, connection, None, None, out.result, Store)
        /\ prev' = last
        /\ UNCHANGED <<kg9, kg10, clock, learning, dialogueVars>>

\* learn_fact on a closed connection: the first cursor.execute raises
KGClosedLearn(s, r, f) ==
    /\ connection = "closed"
    /\ last' = Call("learn", Engine, s, r, f, ProgrammingError, Store)
    /\ prev' = last
    /\ UNCHANGED <<kg9, kg10, clock, connection, learning, dialogueVars>>

\* query_facts on a closed connection: cursor.execute raises
KGClosedQuery(s, r) ==
    /\ connection = "closed"
    /\ last' = Call("query", Engine, s, r, None, ProgrammingError, Store)
    /\ prev' = last
    /\ UNCHANGED <<kg9, kg10, clock, connection, learning, dialogueVars>>

\* KnowledgeGraphEngine() of sclm_phase_9_knowledge.py on the file left by
\* the closed engine
KG9Connect ==
    LET out == KG9_initialize_database(kg9, clock)
    IN  /\ Engine = "kg9"
        /\ connection = "closed"
        /\ connection' = "open"
        /\ kg9' = out.kb
        /\ clock' = out.clock
        /\ last' = Call("connect", "kg9", None, None, None, Returned, kg9)
        /\ prev' = last
        /\ UNCHANGED <<kg10, learning, dialogueVars>>

\* KnowledgeGraphEngine() of sclm_phase_10_interactive_graph.py on the file
\* left by the closed engine
KG10Connect ==
    LET out == KG10_initialize_database(kg10, clock)
    IN  /\ Engine = "kg10"
        /\ connection = "closed"
        /\ Writes < MaxWrites
        /\ connection' = "open"
        /\ kg10' = out.kb
        /\ clock' = out.clock
        /\ last' = Call("connect", "kg10", None, None, None, Returned, kg10)
        /\ prev' = last
        /\ UNCHANGED <<kg9, learning, dialogueVars>>

\* the arguments the calls of an engine's life are explored with
LifeSubjects == {"ball", "Car"}
LifeFacts == {"Door"}

StoreNext ==
    \/ /\ connection = "open"
       /\ \/ \E s \in LifeSubjects, r \in Relationships, f \in LifeFacts :
                 KG9Learn(s, r, f)
          \/ \E s \in LifeSubjects, r \in Relationships : KG9Query(s, r)
          \/ \E s \in LifeSubjects, r \in Relationships, f \in LifeFacts :
                 KG10Learn(s, r, f)
          \/ \E s \in LifeSubjects, r \in Relationships : KG10Query(s, r)
    \/ KGClose
    \/ \E s \in LifeSubjects, r \in Relationships, f \in LifeFacts :
           KGClosedLearn(s, r, f)
    \/ \E s \in LifeSubjects, r \in Relationships : KGClosedQuery(s, r)
    \/ KG9Connect
    \/ KG10Connect

SpecStore == KGInit /\ [][StoreNext]_vars

-----------------------------------------------------------------------------
(* Several sessions on one database file: each session has its own engine  *)
(* (its own connection and cursor) and runs learn_fact statement by        *)
(* statement.  sqlite runs one statement at a time; nothing in learn_fact  *)
(* holds the database between its SELECT and its INSERT.                   *)

Sessions == {1, 2}

Idle == [pc |-> "idle"]

SharedSubjects == {"ball", "Car"}
SharedFacts == {"Door", "round"}

\* learn_fact calls that have not returned
InFlight == Cardinality({i \in Sessions : learning[i].pc # "idle"})

\* the engines of the sessions were constructed on a fresh file
SharedInit ==
    /\ \/ kg9 = KG9Start.kb /\ kg10 = <<>> /\ clock = KG9Start.clock
       \/ kg9 = <<>> /\ kg10 = KG10Start.kb /\ clock = KG10Start.clock
    /\ last = NoCall
    /\ prev = NoCall
    /\ connection = "open"
    /\ learning = [i \in Sessions |-> Idle]
    /\ NoDialogue

\* a learn_fact that returned: its result, the rows of its key that its
\* SELECT had fetched, the table its last statement ran on
Learned(i, c, result, pre) ==
    [op |-> "learn", engine |-> Engine, session |-> i, subject |-> c.subject,
     relationship |-> c.relationship, fact |-> c.fact, result |-> result,
     seen |-> c.existing_facts, pre |-> pre]

\* sclm_phase_9_knowledge.py learn_fact: the SELECT and fetchall()
KG9Select(i, s, r, f) ==
    /\ Engine = "kg9"
    /\ learning[i].pc = "idle"
    /\ Writes + InFlight < MaxWrites
    /\ learning' = [learning EXCEPT ![i] =
                       [pc |-> "selected", subject |-> s, relationship |-> r,
                        fact |-> f,
                        existing_facts |-> SelectKey(kg9, Lower(s), Lower(r))]]
    /\ UNCHANGED <<kg9, kg10, clock, last, prev, connection, dialogueVars>>

\* learn_fact after its SELECT: the tests of the rows fetched, the INSERT
\* and the commit
KG9_learn_fact_after_select(existing_facts, kb, clk, subject, relationship, fact, source) ==
    IF /\ existing_facts # <<>>
       /\ Lower(relationship) \in KG9_singular_relationships
       /\ existing_facts[1].is_immutable
    THEN [result |-> "CONFLICT_WITH_CONSTANT", kb |-> kb, clock |-> clk]
    ELSE IF /\ existing_facts # <<>>
            /\ \E k \in DOMAIN existing_facts :
                   Lower(fact) = Lower(existing_facts[k].fact)
    THEN [result |-> "ALREADY_KNOWN", kb |-> kb, clock |-> clk]
    ELSE [result |-> "LEARNED_SUCCESSFULLY",
          kb |-> Append(kb, Row(Lower(subject), Lower(relationship), fact,
                                FALSE, source, clk + 1)),
          clock |-> clk + 1]

KG9Finish(i) ==
    LET c == learning[i]
        out == KG9_learn_fact_after_select(c.existing_facts, kg9, clock,
                                           c.subject, c.relationship, c.fact,
                                           "user")
    IN  /\ Engine = "kg9"
        /\ c.pc = "selected"
        /\ kg9' = out.kb
        /\ clock' = out.clock
        /\ learning' = [learning EXCEPT ![i] = Idle]
        /\ last' = Learned(i, c, out.result, kg9)
        /\ prev' = last
        /\ UNCHANGED <<kg10, connection, dialogueVars>>

\* sclm_phase_10_interactive_graph.py learn_fact: SELECT is_immutable and
\* fetchone(); a row that is immutable ends the call
KG10SelectFlag(i, s, r, f) ==
    LET found == SelectKey(kg10, Lower(s), Lower(r))
        c == [pc |-> "flagged", subject |-> s, relationship |-> r, fact |-> f,
              existing_facts |-> found]
    IN  /\ Engine = "kg10"
        /\ learning[i].pc = "idle"
        /\ Writes + InFlight < MaxWrites
        /\ IF found # <<>> /\ found[1].is_immutable
           THEN /\ last' = Learned(i, c, "CONFLICT_WITH_CONSTANT", kg10)
                /\ prev' = last
                /\ UNCHANGED learning
           ELSE /\ learning' = [learning EXCEPT ![i] = c]
                /\ UNCHANGED <<last, prev>>
        /\ UNCHANGED <<kg9, kg10, clock, connection, dialogueVars>>

\* SELECT 1 and fetchone(): is_update
KG10SelectUpdate(i) ==
    LET c == learning[i]
    IN  /\ Engine = "kg10"
        /\ c.pc = "flagged"
        /\ learning' = [learning EXCEPT ![i] =
                           [c EXCEPT !.pc = "checked",
                                     !.existing_facts =
                                         SelectKey(kg10, Lower(c.subject),
                                                   Lower(c.relationship))]]
        /\ UNCHANGED <<kg9, kg10, clock, last, prev, connection, dialogueVars>>

\* INSERT OR REPLACE, commit, and the return
KG10Write(i) ==
    LET c == learning[i]
    IN  /\ Engine = "kg10"
        /\ c.pc = "checked"
        /\ kg10' = InsertOrReplace(kg10, Row(Lower(c.subject),
                                              Lower(c.relationship), c.fact,
                                              FALSE, "user", clock + 1))
        /\ clock' = clock + 1
        /\ learning' = [learning EXCEPT ![i] = Idle]
        /\ last' = Learned(i, c, IF c.existing_facts # <<>> THEN "UPDATED_BELIEF"
                                 ELSE "LEARNED_SUCCESSFULLY", kg10)
        /\ prev' = last
        /\ UNCHANGED <<kg9, connection, dialogueVars>>

SharedNext ==
    \E i \in Sessions :
        \/ \E s \in SharedSubjects, r \in Relationships, f \in SharedFacts :
               KG9Select(i, s, r, f)
        \/ KG9Finish(i)
        \/ \E s \in SharedSubjects, r \in Relationships, f \in SharedFacts :
               KG10SelectFlag(i, s, r, f)
        \/ KG10SelectUpdate(i)
        \/ KG10Write(i)

SpecShared == SharedInit /\ [][SharedNext]_vars

-----------------------------------------------------------------------------
(* Core thoughts.  A thought is a dict: a key that is not in the dict has  *)
(* the value Absent, a key whose value is None has the value None.         *)

Absent == "<absent>"

\* dict.get(key, default)
Get(value, default) == IF value = Absent THEN default ELSE value

\* Python's truth value of a field: None, a missing key and "" are false
Truthy(value) == value # None /\ value # Absent /\ value # ""

\* a reply is the sequence of the pieces its f-string is put together from
\* str(None)
Str(value) == IF value = None \/ value = Absent THEN "None" ELSE value

-----------------------------------------------------------------------------
(* Sentences.  input_sentence is the sequence of its characters, so that   *)
(* Python's "word in sentence" is the search of a substring.               *)

UpperCase == <<"A", "B", "C", "D", "E", "F", "G", "H", "I", "J", "K", "L", "M",
               "N", "O", "P", "Q", "R", "S", "T", "U", "V", "W", "X", "Y", "Z">>
LowerCase == <<"a", "b", "c", "d", "e", "f", "g", "h", "i", "j", "k", "l", "m",
               "n", "o", "p", "q", "r", "s", "t", "u", "v", "w", "x", "y", "z">>

\* str.lower() on a sentence
LowerChar(c) ==
    IF \E i \in DOMAIN UpperCase : UpperCase[i] = c
    THEN LowerCase[CHOOSE i \in DOMAIN UpperCase : UpperCase[i] = c]
    ELSE c

LowerSentence(sentence) == [i \in DOMAIN sentence |-> LowerChar(sentence[i])]

\* word in sentence
In(word, sentence) ==
    \E i \in 0..(Len(sentence) - Len(word)) :
        SubSeq(sentence, i + 1, i + Len(word)) = word

\* "That's just great, I dropped it."
ThatsJustGreatIDroppedIt ==
    <<"T", "h", "a", "t", "'", "s", " ", "j", "u", "s", "t", " ", "g", "r",
      "e", "a", "t", ",", " ", "I", " ", "d", "r", "o", "p", "p", "e", "d",
      " ", "i", "t", ".">>

\* "That's just great, I won the race."
ThatsJustGreatIWonTheRace ==
    <<"T", "h", "a", "t", "'", "s", " ", "j", "u", "s", "t", " ", "g", "r",
      "e", "a", "t", ",", " ", "I", " ", "w", "o", "n", " ", "t", "h", "e",
      " ", "r", "a", "c", "e", ".">>

\* "GREAT, I lost it."
GreatILostIt ==
    <<"G", "R", "E", "A", "T", ",", " ", "I", " ", "l", "o", "s", "t", " ",
      "i", "t", ".">>

\* "I dropped the ball."
IDroppedTheBall ==
    <<"I", " ", "d", "r", "o", "p", "p", "e", "d", " ", "t", "h", "e", " ",
      "b", "a", "l", "l", ".">>

\* "It is fast."
ItIsFast ==
    <<"I", "t", " ", "i", "s", " ", "f", "a", "s", "t", ".">>

\* "The cat walked."
TheCatWalked ==
    <<"T", "h", "e", " ", "c", "a", "t", " ", "w", "a", "l", "k", "e", "d",
      ".">>

\* "Is it fast?"
IsItFast ==
    <<"I", "s", " ", "i", "t", " ", "f", "a", "s", "t", "?">>

\* "IT is greatly broken."
ItIsGreatlyBroken ==
    <<"I", "T", " ", "i", "s", " ", "g", "r", "e", "a", "t", "l", "y", " ",
      "b", "r", "o", "k", "e", "n", ".">>

\* "The shape of ball is door."
TheShapeOfBallIsDoor ==
    <<"T", "h", "e", " ", "s", "h", "a", "p", "e", " ", "o", "f", " ", "b",
      "a", "l", "l", " ", "i", "s", " ", "d", "o", "o", "r", ".">>

\* "It hit the wall."
ItHitTheWall ==
    <<"I", "t", " ", "h", "i", "t", " ", "t", "h", "e", " ", "w", "a", "l",
      "l", ".">>

\* "What is the has_part of car?"
WhatIsTheHasPartOfCar ==
    <<"W", "h", "a", "t", " ", "i", "s", " ", "t", "h", "e", " ", "h", "a",
      "s", "_", "p", "a", "r", "t", " ", "o", "f", " ", "c", "a", "r", "?">>

-----------------------------------------------------------------------------
(* semantic_parser.py and sclm_phase_10_interactive_graph.py:              *)
(* SemanticParser.parse_sentence                                           *)
(*                                                                         *)
(* parse_sentence reads the dependency parse spaCy makes of the sentence.  *)
(* A doc is what the method reads of that parse: the lemma of the ROOT      *)
(* token (None when there is no ROOT; the ROOT is tagged AUX when its      *)
(* lemma is "be"), the text of its nsubj and attr children, the children   *)
(* of these that the patterns look for, and the children and features the  *)
(* fallback reads.  The docs explored have no prep child of the ROOT, no   *)
(* named entities and no progressive aspect.                               *)

Docs ==
    {doc \in [root : {None, "be", "drop"},
              nsubj : {None, "What", "shape", "It"},
              poss : {None, "ball's"},
              of : {"none", "of", "of_pobj"},
              attr : {None, "what", "round", "parts"},
              attr_of : {"none", "of", "of_pobj"},
              verb_child : {None, "break"},
              dobj : {None, "the ball"},
              acomp : {None, "fast"},
              wh_first : BOOLEAN,
              tense : {None, "past", "present"}] :
        /\ doc.root = None =>
              /\ doc.nsubj = None /\ doc.attr = None /\ doc.dobj = None
              /\ doc.acomp = None /\ ~doc.wh_first /\ doc.tense = None
        /\ doc.nsubj # "shape" => doc.poss = None /\ doc.of = "none"
        /\ doc.attr # "parts" => doc.attr_of = "none"
        /\ doc.root # "be" => doc.verb_child = None}

\* token.lemma_.lower() == "what"
IsWhat(token) == token \in {"What", "what"}

\* _get_full_subtree of the nsubj child
SubjectSubtree(doc) ==
    IF doc.poss # None THEN "ball's shape"
    ELSE IF doc.of = "of_pobj" THEN "The shape of ball"
    ELSE IF doc.of = "of" THEN "The shape of"
    ELSE doc.nsubj

\* _get_full_subtree of the attr child
AttrSubtree(doc) ==
    IF doc.attr_of = "of_pobj" THEN "the parts of car"
    ELSE IF doc.attr_of = "of" THEN "the parts of"
    ELSE IF doc.attr = "parts" THEN "the parts"
    ELSE doc.attr

\* subject_text[:-2] if subject_text.endswith("'s") else subject_text, and
\* .replace("'s", "") of the phase-10 file, on the texts explored
StripPossessive(text) == IF text = "ball's" THEN "ball" ELSE text

\* the phase-10 file: the text without a leading "a " or "the "
StripArticle(text) ==
    CASE text = "The shape of ball" -> "shape of ball"
      [] text = "The shape of" -> "shape of"
      [] OTHER -> text

\* the phase-10 file: _infer_relationship
P10_infer_relationship(fact_text) ==
    IF fact_text \in {"round", "square", "triangular", "flat", "curved"}
    THEN "shape"
    ELSE IF fact_text \in {"red", "blue", "green", "yellow", "black", "white"}
    THEN "color"
    ELSE "state"

\* semantic_parser.py: core_thought as parse_sentence sets it up
SP_core_thought(sentence) ==
    [input_sentence |-> sentence,
     action |-> None, agent |-> None, object |-> None, destination |-> None,
     tense |-> None, mood |-> "indicative", attribute |-> None,
     urgency |-> "neutral", mood_connotation |-> "neutral", tone |-> "neutral",
     entities |-> <<>>, preposition |-> None, tense_aspect |-> None,
     learning_fact |-> None, query_fact |-> None]

\* what patterns 1 and 2 of both files write when there is an attr child
FactOf(core_thought, doc, subject, relationship) ==
    IF IsWhat(doc.attr)
    THEN [core_thought EXCEPT !.query_fact = <<subject, relationship>>,
                              !.mood = "interrogative_fact"]
    ELSE [core_thought EXCEPT
             !.learning_fact = <<subject, relationship, AttrSubtree(doc)>>,
             !.mood = "declarative_fact"]

\* semantic_parser.py: the fallback to the original parsing logic
SP_fallback(core_thought, doc) ==
    LET aux == doc.root = "be"
        main_verb == IF aux /\ doc.verb_child # None THEN doc.verb_child
                     ELSE doc.root
    IN  [core_thought EXCEPT
            !.action = main_verb,
            !.tense = doc.tense,
            !.mood = IF aux /\ doc.wh_first THEN "interrogative" ELSE @,
            !.agent = IF doc.nsubj # None THEN SubjectSubtree(doc) ELSE @,
            !.object = doc.dobj,
            !.attribute = doc.acomp]

\* parse_sentence whose pattern 3 writes query_fact and leaves the mood
SP_parse_sentence_no_mood(sentence, doc) ==
    LET core_thought == SP_core_thought(sentence)
        be == doc.root = "be" /\ doc.nsubj # None
    IN  IF doc.root = None THEN core_thought
        ELSE IF be /\ doc.poss # None /\ doc.attr # None
        THEN FactOf(core_thought, doc, StripPossessive(doc.poss), doc.nsubj)
        ELSE IF be /\ doc.of = "of_pobj" /\ doc.attr # None
        THEN FactOf(core_thought, doc, "ball", doc.nsubj)
        ELSE IF be /\ IsWhat(doc.nsubj) /\ doc.attr # None
                /\ doc.attr_of = "of_pobj"
        THEN [core_thought EXCEPT !.query_fact = <<"car", doc.attr>>]
        ELSE SP_fallback(core_thought, doc)

\* semantic_parser.py: parse_sentence
SP_parse_sentence(sentence, doc) ==
    LET core_thought == SP_core_thought(sentence)
        be == doc.root = "be" /\ doc.nsubj # None
    IN  IF doc.root = None THEN core_thought
        \* PATTERN 1: "Subject's Relationship is Fact"
        ELSE IF be /\ doc.poss # None /\ doc.attr # None
        THEN FactOf(core_thought, doc, StripPossessive(doc.poss), doc.nsubj)
        \* PATTERN 2: "The Relationship of Subject is Fact"
        ELSE IF be /\ doc.of = "of_pobj" /\ doc.attr # None
        THEN FactOf(core_thought, doc, "ball", doc.nsubj)
        \* PATTERN 3: "What are the [Relationship] of [Subject]?"
        ELSE IF be /\ IsWhat(doc.nsubj) /\ doc.attr # None
                /\ doc.attr_of = "of_pobj"
        THEN [core_thought EXCEPT !.query_fact = <<"car", doc.attr>>,
                                  !.mood = "interrogative_fact"]
        ELSE SP_fallback(core_thought, doc)

\* sclm_phase_10_interactive_graph.py: parse_sentence
P10_parse_sentence(sentence, doc) ==
    LET core_thought ==
            [input_sentence |-> sentence, mood |-> "indicative",
             learning_fact |-> None, query_fact |-> None, action |-> None,
             agent |-> None, object |-> None, destination |-> None,
             attribute |-> None]
        be == doc.root = "be"
    IN  IF doc.root = None THEN core_thought
        \* PATTERN 1
        ELSE IF be /\ doc.nsubj # None /\ doc.poss # None /\ doc.attr # None
        THEN FactOf(core_thought, doc, StripPossessive(doc.poss), doc.nsubj)
        \* PATTERN 2
        ELSE IF be /\ doc.nsubj # None /\ doc.of = "of_pobj" /\ doc.attr # None
        THEN FactOf(core_thought, doc, "ball", doc.nsubj)
        \* PATTERN 3: "[A/The] Subject is [Fact/Attribute]"
        ELSE IF be /\ doc.nsubj # None /\ doc.attr # None
        THEN [core_thought EXCEPT
                 !.learning_fact = <<StripArticle(SubjectSubtree(doc)),
                                     P10_infer_relationship(AttrSubtree(doc)),
                                     AttrSubtree(doc)>>,
                 !.mood = "declarative_fact"]
        \* PATTERN 4: "What [Relationship] is [Subject]?"
        ELSE IF be /\ doc.attr # None /\ doc.nsubj # None /\ IsWhat(doc.nsubj)
        THEN [core_thought EXCEPT
                 !.query_fact = <<AttrSubtree(doc), doc.nsubj>>,
                 !.mood = "interrogative_fact"]
        ELSE [core_thought EXCEPT
                 !.action = doc.root,
                 !.agent = IF doc.nsubj # None THEN SubjectSubtree(doc) ELSE @,
                 !.object = doc.dobj,
                 !.attribute = doc.acomp]

\* a parser and the doc of the sentence it is about to be called with
ParserInit ==
    /\ kg9 = <<>>
    /\ kg10 = <<>>
    /\ clock = 0
    /\ last \in {[op |-> "doc", doc |-> doc] : doc \in Docs}
    /\ prev = NoCall
    /\ OneEngine
    /\ manager = "none"
    /\ pc = "parse"
    /\ thought = None
    /\ conversation_history = <<>>
    /\ turns = 0

Parsed(parser, parsed_thought) ==
    /\ pc = "parse"
    /\ thought' = parsed_thought
    /\ last' = [op |-> "parse", parser |-> parser, doc |-> last.doc]
    /\ pc' = "done"
    /\ UNCHANGED <<kg9, kg10, clock, prev, connection, learning, manager,
                   conversation_history, turns>>

\* semantic_parser.py: a call of parse_sentence
SPParse == Parsed("semantic_parser", SP_parse_sentence("", last.doc))

\* sclm_phase_10_interactive_graph.py: a call of parse_sentence
P10Parse == Parsed("phase_10", P10_parse_sentence("", last.doc))

ParserNext == SPParse \/ P10Parse

SpecParser == ParserInit /\ [][ParserNext]_vars

-----------------------------------------------------------------------------
(* sclm_phase_4_nuance.py: NuanceEngine                                    *)

verb_connotations ==
    [race |-> [urgency |-> "high", mood |-> "hurried"],
     rush |-> [urgency |-> "high", mood |-> "stressed"],
     hurry |-> [urgency |-> "high", mood |-> "anxious"],
     walk |-> [urgency |-> "low", mood |-> "casual"],
     stroll |-> [urgency |-> "low", mood |-> "leisurely"],
     wander |-> [urgency |-> "low", mood |-> "aimless"],
     chase |-> [urgency |-> "medium", mood |-> "aggressive"],
     write |-> [urgency |-> "neutral", mood |-> "creative"],
     eat |-> [urgency |-> "low", mood |-> "neutral"]]

\* analyze_thought that sets the two fields to neutral for a verb that is
\* not in the table
Nuance_analyze_thought_reset(core_thought) ==
    LET action_verb == Get(core_thought.action, None)
    IN  IF action_verb \in DOMAIN verb_connotations
        THEN [core_thought EXCEPT
                 !.urgency = verb_connotations[action_verb].urgency,
                 !.mood_connotation = verb_connotations[action_verb].mood]
        ELSE [core_thought EXCEPT !.urgency = "neutral",
                                  !.mood_connotation = "neutral"]

Nuance_analyze_thought(core_thought) ==
    LET action_verb == Get(core_thought.action, None)
    IN  IF action_verb \in DOMAIN verb_connotations
        THEN [core_thought EXCEPT
                 !.urgency = verb_connotations[action_verb].urgency,
                 !.mood_connotation = verb_connotations[action_verb].mood]
        ELSE core_thought

\* the thoughts analyze_thought is called with: verbs of the table, verbs
\* that are not in it, no verb, and the two fields as an earlier stage or
\* caller may have left them
NuanceActions == {"race", "walk", "write", "eat", "drop", "Race", None, Absent}

NuanceThoughts ==
    [input_sentence : {TheCatWalked}, action : NuanceActions,
     agent : {None, "The cat"},
     urgency : {"neutral", "high", Absent},
     mood_connotation : {"neutral", "stressed", Absent},
     tone : {"neutral", "sarcastic"}]

NuanceInit ==
    /\ kg9 = <<>>
    /\ kg10 = <<>>
    /\ clock = 0
    /\ last = NoCall
    /\ prev = NoCall
    /\ OneEngine
    /\ manager = "none"
    /\ pc = "nuance"
    /\ thought \in NuanceThoughts
    /\ conversation_history = <<>>
    /\ turns = 0

\* a call of analyze_thought on the thought
NuanceAnalyze ==
    /\ pc = "nuance"
    /\ thought' = Nuance_analyze_thought(thought)
    /\ last' = [op |-> "nuance", before |-> thought]
    /\ pc' = "done"
    /\ UNCHANGED <<kg9, kg10, clock, prev, connection, learning, manager,
                   conversation_history, turns>>

\* the next thought comes in
NuanceAgain(core_thought) ==
    /\ pc = "done"
    /\ thought' = core_thought
    /\ pc' = "nuance"
    /\ UNCHANGED <<kg9, kg10, clock, last, prev, connection, learning, manager,
                   conversation_history, turns>>

NuanceNext ==
    NuanceAnalyze \/ \E core_thought \in NuanceThoughts : NuanceAgain(core_thought)

SpecNuance == NuanceInit /\ [][NuanceNext]_vars

-----------------------------------------------------------------------------
(* sclm_phase_7_tone.py: ToneEngine                                        *)

sarcastic_positives ==
    << <<"g", "r", "e", "a", "t">>,
       <<"p", "e", "r", "f", "e", "c", "t">>,
       <<"f", "a", "n", "t", "a", "s", "t", "i", "c">>,
       <<"w", "o", "n", "d", "e", "r", "f", "u", "l">>,
       <<"l", "o", "v", "e", "l", "y">> >>

negative_context_verbs == {"spill", "break", "lose", "forget", "drop"}

\* analyze_thought that looks for the words in the sentence as it was typed
Tone_analyze_thought_no_lower(core_thought) ==
    LET sentence == Get(core_thought.input_sentence, <<>>)
        action == Get(core_thought.action, "")
        has_positive_word ==
            \E k \in DOMAIN sarcastic_positives :
                In(sarcastic_positives[k], sentence)
        has_negative_context == action \in negative_context_verbs
    IN  IF has_positive_word /\ has_negative_context
        THEN [core_thought EXCEPT !.tone = "sarcastic"]
        ELSE [core_thought EXCEPT !.tone = "neutral"]

Tone_analyze_thought(core_thought) ==
    LET neutral == [core_thought EXCEPT !.tone = "neutral"]
        sentence == LowerSentence(Get(core_thought.input_sentence, <<>>))
        action == Get(core_thought.action, "")
        has_positive_word ==
            \E k \in DOMAIN sarcastic_positives :
                In(sarcastic_positives[k], sentence)
        has_negative_context == action \in negative_context_verbs
    IN  IF has_positive_word /\ has_negative_context
        THEN [neutral EXCEPT !.tone = "sarcastic"]
        ELSE neutral

\* the thoughts analyze_thought is explored with: the keys it reads and
\* the key it writes
ToneSentences ==
    {ThatsJustGreatIDroppedIt, ThatsJustGreatIWonTheRace, GreatILostIt,
     IDroppedTheBall, ItIsGreatlyBroken, ItIsFast}

ToneActions == {"drop", "win", "lose", "break", "be", None, Absent}

ToneThoughts ==
    [input_sentence : ToneSentences, action : ToneActions,
     tone : {"neutral", "sarcastic", Absent}]

ToneInit ==
    /\ kg9 = <<>>
    /\ kg10 = <<>>
    /\ clock = 0
    /\ last = NoCall
    /\ prev = NoCall
    /\ OneEngine
    /\ manager = "none"
    /\ pc = "tone"
    /\ thought \in ToneThoughts
    /\ conversation_history = <<>>
    /\ turns = 0

\* a call of analyze_thought on the thought
ToneAnalyze ==
    /\ pc = "tone"
    /\ thought' = Tone_analyze_thought(thought)
    /\ last' = [op |-> "tone", before |-> thought]
    /\ pc' = "done"
    /\ UNCHANGED <<kg9, kg10, clock, prev, connection, learning, manager,
                   conversation_history, turns>>

\* the next thought comes in
ToneAgain(core_thought) ==
    /\ pc = "done"
    /\ thought' = core_thought
    /\ pc' = "tone"
    /\ UNCHANGED <<kg9, kg10, clock, last, prev, connection, learning, manager,
                   conversation_history, turns>>

ToneNext == ToneAnalyze \/ \E core_thought \in ToneThoughts : ToneAgain(core_thought)

SpecTone == ToneInit /\ [][ToneNext]_vars

-----------------------------------------------------------------------------
(* sclm_phase_10_interactive_graph.py: ResponseEngine, DialogueManager     *)

\* the engine handed to generate_response: both files' KnowledgeGraphEngine
\* have the two methods it calls
KGE_learn_fact(engine, kb, clk, subject, relationship, fact) ==
    IF engine = "kg9"
    THEN KG9_learn_fact(kb, clk, subject, relationship, fact, "user")
    ELSE KG10_learn_fact(kb, clk, subject, relationship, fact, "user")

KGE_query_facts(engine, kb, subject, relationship) ==
    IF engine = "kg9" THEN KG9_query_facts(kb, subject, relationship)
    ELSE KG10_query_facts(kb, subject, relationship)

\* ", ".join(items): the items with ", " between them
RECURSIVE JoinComma(_)
JoinComma(items) ==
    IF Len(items) = 0 THEN <<>>
    ELSE IF Len(items) = 1 THEN <<items[1]>>
    ELSE <<items[1], ", ">> \o JoinComma(Tail(items))

\* _format_list with "and" put before every item but the first
RE10_format_list_all_and(items) ==
    IF Len(items) = 0 THEN <<"">>
    ELSE IF Len(items) = 1 THEN <<items[1]>>
    ELSE <<items[1]>> \o [k \in 1..(2 * (Len(items) - 1)) |->
                            IF k % 2 = 1 THEN ", and " ELSE items[(k \div 2) + 1]]

RE10_format_list(items) ==
    IF Len(items) = 0 THEN <<"">>
    ELSE IF Len(items) = 1 THEN <<items[1]>>
    ELSE JoinComma(SubSeq(items, 1, Len(items) - 1))
            \o <<", and ", items[Len(items)]>>

Reply(text, kb, clk, result, answers) ==
    [reply |-> text, kb |-> kb, clock |-> clk, result |-> result,
     answers |-> answers]

\* generate_response from its second if on: what runs when the first did
\* not return
RE10_after_learning(core_thought, engine, kb, clk, result) ==
    IF core_thought.mood = "interrogative_fact" /\ Truthy(core_thought.query_fact)
    THEN LET subject == core_thought.query_fact[1]
             rel == core_thought.query_fact[2]
             answers == KGE_query_facts(engine, kb, subject, rel)
         IN  IF Len(answers) > 0
             THEN Reply(<<"Based on what I know, the ", rel, " of ", subject, " ",
                          IF Len(answers) = 1 THEN "is" ELSE "are", ": ">>
                            \o RE10_format_list(answers) \o <<".">>,
                        kb, clk, result, answers)
             ELSE Reply(<<"I don't have any information about the ", rel, " of ",
                          subject, ".">>, kb, clk, result, answers)
    ELSE IF Truthy(core_thought.attribute)
    THEN Reply(<<Str(Get(core_thought.agent, "It")), " certainly seems to be ",
                 Str(core_thought.attribute),
                 ". That's an interesting observation.">>, kb, clk, result, None)
    ELSE Reply(<<"I understand. Thank you for telling me.">>, kb, clk, result, None)

\* generate_response with the reply to a conflict left as the reply to a
\* lesson learned
RE10_generate_response_no_conflict(core_thought, engine, kb, clk) ==
    IF core_thought.mood = "declarative_fact" /\ Truthy(core_thought.learning_fact)
    THEN LET subject == core_thought.learning_fact[1]
             rel == core_thought.learning_fact[2]
             fact == core_thought.learning_fact[3]
             out == KGE_learn_fact(engine, kb, clk, subject, rel, fact)
         IN  Reply(<<"Okay, I've learned that the ", rel, " of ", subject, " is ",
                     fact, ".">>, out.kb, out.clock, out.result, None)
    ELSE RE10_after_learning(core_thought, engine, kb, clk, None)

\* generate_response without a reply to UPDATED_BELIEF: the turn goes on to
\* the later rules
RE10_generate_response_no_updated(core_thought, engine, kb, clk) ==
    IF core_thought.mood = "declarative_fact" /\ Truthy(core_thought.learning_fact)
    THEN LET subject == core_thought.learning_fact[1]
             rel == core_thought.learning_fact[2]
             fact == core_thought.learning_fact[3]
             out == KGE_learn_fact(engine, kb, clk, subject, rel, fact)
         IN  IF out.result = "LEARNED_SUCCESSFULLY"
             THEN Reply(<<"Okay, I've learned that the ", rel, " of ", subject,
                          " is ", fact, ".">>, out.kb, out.clock, out.result, None)
             ELSE IF out.result = "CONFLICT_WITH_CONSTANT"
             THEN LET known_fact == KGE_query_facts(engine, out.kb, subject, rel)
                  IN  Reply(<<"That's interesting, but my understanding is that the ",
                              rel, " of ", subject, " is ">>
                                \o RE10_format_list(known_fact) \o <<".">>,
                            out.kb, out.clock, out.result, known_fact)
             ELSE RE10_after_learning(core_thought, engine, out.kb, out.clock,
                                      out.result)
    ELSE RE10_after_learning(core_thought, engine, kb, clk, None)

RE10_generate_response(core_thought, engine, kb, clk) ==
    IF core_thought.mood = "declarative_fact" /\ Truthy(core_thought.learning_fact)
    THEN LET subject == core_thought.learning_fact[1]
             rel == core_thought.learning_fact[2]
             fact == core_thought.learning_fact[3]
             out == KGE_learn_fact(engine, kb, clk, subject, rel, fact)
         IN  IF out.result = "LEARNED_SUCCESSFULLY"
             THEN Reply(<<"Okay, I've learned that the ", rel, " of ", subject,
                          " is ", fact, ".">>, out.kb, out.clock, out.result, None)
             ELSE IF out.result = "UPDATED_BELIEF"
             THEN Reply(<<"Okay, I've updated my belief. I now understand that the ",
                          rel, " of ", subject, " is ", fact, ".">>,
                        out.kb, out.clock, out.result, None)
             ELSE IF out.result = "CONFLICT_WITH_CONSTANT"
             THEN LET known_fact == KGE_query_facts(engine, out.kb, subject, rel)
                  IN  Reply(<<"That's interesting, but my understanding is that the ",
                              rel, " of ", subject, " is ">>
                                \o RE10_format_list(known_fact) \o <<".">>,
                            out.kb, out.clock, out.result, known_fact)
             ELSE RE10_after_learning(core_thought, engine, out.kb, out.clock,
                                      out.result)
    ELSE RE10_after_learning(core_thought, engine, kb, clk, None)

\* the thoughts parse_sentence of the file returns: a statement of a fact, a
\* question for a fact, or the action-based fallback
GraphThought(mood, learning_fact, query_fact, action, agent, attribute) ==
    [input_sentence |-> "", mood |-> mood, learning_fact |-> learning_fact,
     query_fact |-> query_fact, action |-> action, agent |-> agent,
     object |-> None, destination |-> None, attribute |-> attribute]

GraphThoughts ==
    {GraphThought("declarative_fact", <<s, r, f>>, None, None, None, None) :
        s \in Subjects, r \in Relationships, f \in Facts}
    \cup {GraphThought("interrogative_fact", None, <<s, r>>, None, None, None) :
        s \in Subjects, r \in Relationships}
    \cup {GraphThought("indicative", None, None, "seem", agent, attribute) :
        agent \in {None, "cat"}, attribute \in {None, "fast"}}

\* DialogueManager.handle_message, after the parser
GraphTurn(core_thought) ==
    LET out == RE10_generate_response(core_thought, Engine, Store, clock)
    IN  /\ out.kb # Store => Writes < MaxWrites
        /\ IF Engine = "kg9"
           THEN kg9' = out.kb /\ UNCHANGED kg10
           ELSE kg10' = out.kb /\ UNCHANGED kg9
        /\ clock' = out.clock
        /\ last' = [op |-> "turn", engine |-> Engine, thought |-> core_thought,
                    reply |-> out.reply, result |-> out.result,
                    answers |-> out.answers, pre |-> Store]
        /\ UNCHANGED <<prev, connection, learning, dialogueVars>>

GraphNext == \E core_thought \in GraphThoughts : GraphTurn(core_thought)

SpecGraph == KGInit /\ [][GraphNext]_vars

-----------------------------------------------------------------------------
(* sclm_final_interactive.py: ResponseEngine                               *)
(*                                                                         *)
(* knowledge_engine is what the engine handed in answers: learn_fact's     *)
(* result (tested for truth) and query_fact's result.                      *)

Answer(text, calls) == [reply |-> text, calls |-> calls]

\* generate_response with the sarcasm rule tried first, as in
\* sclm_interactive_chat.py
Final_generate_response_sarcasm_first(core_thought, knowledge_engine) ==
    IF Get(core_thought.tone, None) = "sarcastic"
    THEN Answer(<<"Oh no, that sounds frustrating. I hope everything is okay!">>,
                <<>>)
    ELSE IF core_thought.mood = "declarative_fact"
            /\ Truthy(core_thought.learning_fact)
    THEN IF knowledge_engine.learn_fact
         THEN Answer(<<"Okay, I've learned that the ",
                       core_thought.learning_fact[2], " of ",
                       core_thought.learning_fact[1], " is ",
                       core_thought.learning_fact[3], ".">>, <<"learn_fact">>)
         ELSE Answer(<<"I had trouble remembering that. Could you try phrasing it differently?">>,
                     <<"learn_fact">>)
    ELSE IF core_thought.mood = "interrogative_fact"
            /\ Truthy(core_thought.query_fact)
    THEN IF Truthy(knowledge_engine.query_fact)
         THEN Answer(<<"Based on what I know, the ", core_thought.query_fact[2],
                       " of ", core_thought.query_fact[1], " is ",
                       knowledge_engine.query_fact, ".">>, <<"query_fact">>)
         ELSE Answer(<<"I'm sorry, I don't have any information about the ",
                       core_thought.query_fact[2], " of ",
                       core_thought.query_fact[1], ".">>, <<"query_fact">>)
    ELSE IF core_thought.mood = "interrogative"
    THEN Answer(<<"That's a good question. I'm not sure what the answer is.">>,
                <<>>)
    ELSE IF Truthy(core_thought.attribute)
    THEN Answer(<<Str(Get(core_thought.agent, "It")), " certainly seems to be ",
                  Str(core_thought.attribute),
                  ". That's an interesting observation.">>, <<>>)
    ELSE Answer(<<"I understand. Thank you for telling me.">>, <<>>)

Final_generate_response(core_thought, knowledge_engine) ==
    LET mood == core_thought.mood
    IN  \* 1. Handle Factual Learning
        IF mood = "declarative_fact" /\ Truthy(core_thought.learning_fact)
        THEN LET subject == core_thought.learning_fact[1]
                 relationship == core_thought.learning_fact[2]
                 fact == core_thought.learning_fact[3]
                 success == knowledge_engine.learn_fact
             IN  IF success
                 THEN Answer(<<"Okay, I've learned that the ", relationship,
                               " of ", subject, " is ", fact, ".">>,
                             <<"learn_fact">>)
                 ELSE Answer(<<"I had trouble remembering that. Could you try phrasing it differently?">>,
                             <<"learn_fact">>)
        \* 2. Handle Factual Questions
        ELSE IF mood = "interrogative_fact" /\ Truthy(core_thought.query_fact)
        THEN LET subject == core_thought.query_fact[1]
                 relationship == core_thought.query_fact[2]
                 answer == knowledge_engine.query_fact
             IN  IF Truthy(answer)
                 THEN Answer(<<"Based on what I know, the ", relationship,
                               " of ", subject, " is ", answer, ".">>,
                             <<"query_fact">>)
                 ELSE Answer(<<"I'm sorry, I don't have any information about the ",
                               relationship, " of ", subject, ".">>,
                             <<"query_fact">>)
        \* 3. Handle Sarcasm
        ELSE IF Get(core_thought.tone, None) = "sarcastic"
        THEN Answer(<<"Oh no, that sounds frustrating. I hope everything is okay!">>,
                    <<>>)
        \* 4. Handle Standard Questions
        ELSE IF mood = "interrogative"
        THEN Answer(<<"That's a good question. I'm not sure what the answer is.">>,
                    <<>>)
        \* 5. Handle Observations
        ELSE IF Truthy(core_thought.attribute)
        THEN Answer(<<Str(Get(core_thought.agent, "It")),
                      " certainly seems to be ", Str(core_thought.attribute),
                      ". That's an interesting observation.">>, <<>>)
        \* 6. Default Fallback
        ELSE Answer(<<"I understand. Thank you for telling me.">>, <<>>)

Moods == {"indicative", "interrogative", "declarative_fact", "interrogative_fact"}

\* the enriched thoughts generate_response is explored with
FinalThoughts ==
    [mood : Moods,
     learning_fact : {None, <<"ball", "shape", "door">>},
     query_fact : {None, <<"car", "has_part">>},
     tone : {"neutral", "sarcastic"},
     agent : {None, "cat"},
     attribute : {None, "fast"}]

\* what the engine may answer
FinalEngines == [learn_fact : BOOLEAN, query_fact : {None, "engine"}]

DeciderInit ==
    /\ OneEngine
    /\ NoDialogue
    /\ kg9 = <<>>
    /\ kg10 = <<>>
    /\ clock = 0
    /\ last = NoCall
    /\ prev = NoCall

Respond(core_thought, knowledge_engine) ==
    LET out == Final_generate_response(core_thought, knowledge_engine)
    IN  /\ last' = [op |-> "respond", thought |-> core_thought,
                    knowledge_engine |-> knowledge_engine,
                    reply |-> out.reply, calls |-> out.calls]
        /\ UNCHANGED <<kg9, kg10, clock, prev, connection, learning,
                       dialogueVars>>

DeciderNext ==
    \E core_thought \in FinalThoughts, knowledge_engine \in FinalEngines :
        Respond(core_thought, knowledge_engine)

SpecDecider == DeciderInit /\ [][DeciderNext]_vars

-----------------------------------------------------------------------------
(* sclm_interactive_chat.py and sclm_final_interactive.py: the dialogue    *)
(* managers with a conversation history.  get_response / handle_message    *)
(* is followed statement by statement: pc names the statement to run next. *)
(*                                                                         *)
(* sclm_final_interactive.py hands its ResponseEngine a KnowledgeEngine,   *)
(* a class that sclm_phase_9_knowledge.py does not define: what its        *)
(* methods answer is taken from the calls made on it and from the design   *)
(* of the store (an answer while the store is open; once it is closed the  *)
(* call fails, by an exception or by a false result).                      *)

\* turns explored per conversation
MaxTurns == 3

\* core_thought as parse_sentence sets it up, with the keys its patterns fill
CoreThought(input_sentence, action, agent, object, tense, mood, attribute, learning_fact, query_fact) ==
    [input_sentence |-> input_sentence,
     action |-> action, agent |-> agent, object |-> object,
     destination |-> None, tense |-> tense, mood |-> mood,
     attribute |-> attribute, urgency |-> "neutral",
     mood_connotation |-> "neutral", tone |-> "neutral", entities |-> <<>>,
     preposition |-> None, tense_aspect |-> None,
     learning_fact |-> learning_fact, query_fact |-> query_fact]

\* the thoughts the parser hands to the managers in the conversations
\* explored
ParsedThoughts ==
    {CoreThought(IDroppedTheBall, "drop", "I", "the ball", "past",
                 "indicative", None, None, None),
     CoreThought(ThatsJustGreatIDroppedIt, "drop", "I", "it", "past",
                 "indicative", None, None, None),
     CoreThought(TheCatWalked, "walk", "The cat", None, "past",
                 "indicative", None, None, None),
     CoreThought(ItIsFast, "be", "It", None, "present",
                 "indicative", "fast", None, None),
     CoreThought(IsItFast, "be", "it", None, "present",
                 "interrogative", "fast", None, None),
     CoreThought(ItIsGreatlyBroken, "break", "IT", None, "present",
                 "indicative", None, None, None),
     CoreThought(ItHitTheWall, "hit", "It", "the wall", "past",
                 "indicative", None, None, None),
     CoreThought(TheShapeOfBallIsDoor, None, None, None, None,
                 "declarative_fact", None, <<"ball", "shape", "door">>, None),
     CoreThought(WhatIsTheHasPartOfCar, None, None, None, None,
                 "interrogative_fact", None, None, <<"car", "has_part">>)}

\* isinstance(agent, str) and agent.lower() == "it"
IsIt(agent) == agent # None /\ agent # Absent /\ Lower(agent) = "it"

\* _resolve_context with the antecedent taken from the agent before the
\* object
DM_resolve_context_agent_first(current_thought, history) ==
    IF IsIt(Get(current_thought.agent, None)) /\ history # <<>>
    THEN LET last_thought == history[Len(history)]
             antecedent == IF Truthy(Get(last_thought.agent, None))
                           THEN last_thought.agent
                           ELSE Get(last_thought.object, None)
         IN  IF Truthy(antecedent)
             THEN [current_thought EXCEPT !.agent = antecedent]
             ELSE current_thought
    ELSE current_thought

\* _resolve_context with the antecedent taken from the object alone
DM_resolve_context_object_only(current_thought, history) ==
    IF IsIt(Get(current_thought.agent, None)) /\ history # <<>>
    THEN LET last_thought == history[Len(history)]
             antecedent == Get(last_thought.object, None)
         IN  IF Truthy(antecedent)
             THEN [current_thought EXCEPT !.agent = antecedent]
             ELSE current_thought
    ELSE current_thought

\* _resolve_context with the antecedent taken from the latest thought of the
\* history that has an object or an agent
DM_resolve_context_search_back(current_thought, history) ==
    LET named == {i \in DOMAIN history :
                     \/ Truthy(Get(history[i].object, None))
                     \/ Truthy(Get(history[i].agent, None))}
    IN  IF IsIt(Get(current_thought.agent, None)) /\ named # {}
        THEN LET latest == CHOOSE i \in named : \A j \in named : j <= i
                 antecedent == IF Truthy(Get(history[latest].object, None))
                               THEN history[latest].object
                               ELSE history[latest].agent
             IN  [current_thought EXCEPT !.agent = antecedent]
        ELSE current_thought

\* _resolve_context, the same in the two files
DM_resolve_context(current_thought, history) ==
    LET agent == Get(current_thought.agent, None)
    IN  IF IsIt(agent)
        THEN IF history # <<>>
             THEN LET last_thought == history[Len(history)]
                      \* last_thought.get("object") or last_thought.get("agent")
                      antecedent == IF Truthy(Get(last_thought.object, None))
                                    THEN last_thought.object
                                    ELSE Get(last_thought.agent, None)
                  IN  IF Truthy(antecedent)
                      THEN [current_thought EXCEPT !.agent = antecedent]
                      ELSE current_thought
             ELSE current_thought
        ELSE current_thought

\* the thought parse_sentence returned for the sentence
ParsedOf(input_sentence) ==
    CHOOSE parsed_thought \in ParsedThoughts :
        parsed_thought.input_sentence = input_sentence

\* the history that gets the thought as the parser returned it, a copy made
\* before the resolver and the enrichers wrote to it
DM_append_as_parsed(history, final_thought) ==
    Append(history, ParsedOf(final_thought.input_sentence))

\* the history that keeps the last thought only
DM_append_keep_last(history, final_thought) == <<final_thought>>

\* self.conversation_history.append(final_thought)
DM_append(history, final_thought) == Append(history, final_thought)

\* sclm_interactive_chat.py: ResponseEngine.generate_response
Chat_generate_response(final_thought) ==
    LET mood == Get(final_thought.mood, None)
        attribute == Get(final_thought.attribute, None)
        tone == Get(final_thought.tone, None)
    IN  IF tone = "sarcastic"
        THEN <<"Oh no, that sounds frustrating. I hope everything is okay!">>
        ELSE IF mood = "interrogative"
        THEN <<"That's a good question. I'm not sure what the answer is.">>
        ELSE IF Truthy(attribute)
        THEN <<Str(Get(final_thought.agent, "That")), " certainly seems to be ",
               Str(attribute), ". It's an interesting observation.">>
        ELSE <<"I understand. Thank you for telling me.">>

\* what the KnowledgeEngine of sclm_final_interactive.py answers
KnowledgeEngineAnswers(conn) ==
    IF conn = "open"
    THEN {[learn_fact |-> TRUE, query_fact |-> answer, failure |-> "none"] :
            answer \in {None, "engine"}}
    ELSE {[learn_fact |-> FALSE, query_fact |-> None, failure |-> how] :
            how \in {"raises", "returns"}}

DialogueInit ==
    /\ kg9 = <<>>
    /\ kg10 = <<>>
    /\ clock = 0
    /\ last = NoCall
    /\ prev = NoCall
    /\ OneEngine
    /\ manager \in {"chat", "final"}
    /\ pc = "idle"
    /\ thought = None
    /\ conversation_history = <<>>
    /\ turns = 0

\* parsed_thought = self.parser.parse_sentence(message)
DMParse(parsed_thought) ==
    /\ pc = "idle"
    /\ turns < MaxTurns
    /\ thought' = parsed_thought
    /\ pc' = "resolve"
    /\ last' = [op |-> "message", history |-> conversation_history]
    /\ UNCHANGED <<kg9, kg10, clock, prev, connection, learning, manager,
                   conversation_history, turns>>

\* contextual_thought = self._resolve_context(parsed_thought)
DMResolve ==
    /\ pc = "resolve"
    /\ thought' = DM_resolve_context(thought, conversation_history)
    /\ pc' = "nuance"
    /\ UNCHANGED <<kg9, kg10, clock, last, prev, connection, learning, manager,
                   conversation_history, turns>>

\* nuanced_thought = self.nuance_engine.analyze_thought(contextual_thought)
DMNuance ==
    /\ pc = "nuance"
    /\ thought' = Nuance_analyze_thought(thought)
    /\ pc' = "tone"
    /\ UNCHANGED <<kg9, kg10, clock, last, prev, connection, learning, manager,
                   conversation_history, turns>>

\* final_thought = self.tone_engine.analyze_thought(nuanced_thought)
DMTone ==
    /\ pc = "tone"
    /\ thought' = Tone_analyze_thought(thought)
    /\ pc' = "append"
    /\ UNCHANGED <<kg9, kg10, clock, last, prev, connection, learning, manager,
                   conversation_history, turns>>

\* self.conversation_history.append(final_thought)
DMAppend ==
    /\ pc = "append"
    /\ conversation_history' = DM_append(conversation_history, thought)
    /\ pc' = "respond"
    /\ UNCHANGED <<kg9, kg10, clock, last, prev, connection, learning, manager,
                   thought, turns>>

\* the call that ended: the thought it answered, the reply it returned or
\* the exception it let through, the history it had started from
Turn(reply, raised, failure) ==
    [op |-> "turn", manager |-> manager, thought |-> thought, reply |-> reply,
     raised |-> raised, failure |-> failure, before |-> last.history]

\* sclm_interactive_chat.py: generate_response and the return
ChatRespond ==
    /\ manager = "chat"
    /\ pc = "respond"
    /\ last' = Turn(Chat_generate_response(thought), FALSE, "none")
    /\ pc' = "idle"
    /\ turns' = turns + 1
    /\ UNCHANGED <<kg9, kg10, clock, prev, connection, learning, manager,
                   thought, conversation_history>>

\* sclm_final_interactive.py: generate_response and the return; nothing
\* between the engine and the caller of handle_message catches an exception
FinalRespond(knowledge_engine) ==
    LET out == Final_generate_response(thought, knowledge_engine)
        failure == IF out.calls # <<>> THEN knowledge_engine.failure ELSE "none"
    IN  /\ manager = "final"
        /\ pc = "respond"
        /\ last' = IF failure = "raises"
                   THEN Turn(None, TRUE, failure)
                   ELSE Turn(out.reply, FALSE, failure)
        /\ pc' = "idle"
        /\ turns' = turns + 1
        /\ UNCHANGED <<kg9, kg10, clock, prev, connection, learning, manager,
                       thought, conversation_history>>

\* sclm_final_interactive.py: DialogueManager.close
FinalClose ==
    /\ manager = "final"
    /\ pc = "idle"
    /\ connection' = "closed"
    /\ UNCHANGED <<kg9, kg10, clock, last, prev, learning, dialogueVars>>

DialogueNext ==
    \/ \E parsed_thought \in ParsedThoughts : DMParse(parsed_thought)
    \/ DMResolve
    \/ DMNuance
    \/ DMTone
    \/ DMAppend
    \/ ChatRespond
    \/ \E knowledge_engine \in KnowledgeEngineAnswers(connection) :
           FinalRespond(knowledge_engine)
    \/ FinalClose

SpecDialogue == DialogueInit /\ [][DialogueNext]_vars

-----------------------------------------------------------------------------
(* Properties of the knowledge engines.                                    *)

Singular(engine) ==
    IF engine = "kg9" THEN KG9_singular_relationships
    ELSE KG10_singular_relationships

Query(engine, kb, s, r) ==
    IF engine = "kg9" THEN KG9_query_facts(kb, s, r)
    ELSE KG10_query_facts(kb, s, r)

SameKey(x, s, r) == x.subject = Lower(s) /\ x.relationship = Lower(r)

\* the table holds the fact for the key, as the engines compare facts
Contains(kb, s, r, f) ==
    \E i \in DOMAIN kb : SameKey(kb[i], s, r) /\ Lower(kb[i].fact) = Lower(f)

Occurrences(facts, f) == Cardinality({i \in DOMAIN facts : facts[i] = f})

IsLearn(c) == c.op = "learn"

\* C1: learn_fact on a singular relationship whose key holds an immutable
\* row, with a fact other than the stored one, returns
\* CONFLICT_WITH_CONSTANT, leaves the table as it was, and a query of the
\* key returns the original fact alone (both engines).
C1_ConflictWithConstant ==
    (IsLearn(last) /\ Lower(last.relationship) \in Singular(last.engine)) =>
        \A i \in DOMAIN last.pre :
            ( /\ SameKey(last.pre[i], last.subject, last.relationship)
              /\ last.pre[i].is_immutable
              /\ last.pre[i].fact # last.fact )
            => /\ last.result = "CONFLICT_WITH_CONSTANT"
               /\ Store = last.pre
               /\ Query(last.engine, Store, last.subject, last.relationship)
                    = <<last.pre[i].fact>>

\* Test 3 of the phase-9 file: learn_fact("ball", "shape", <not round>)
C1_Witness ==
    /\ IsLearn(last)
    /\ last.engine = "kg9"
    /\ Lower(last.subject) = "ball"
    /\ Lower(last.relationship) = "shape"
    /\ last.fact = "door"
    /\ last.result = "CONFLICT_WITH_CONSTANT"
    /\ kg9 = last.pre

\* C2: for every singular relationship the table holds at most one row per
\* (subject, relationship) in every reachable state: a learn on a singular
\* key that has a row does not add a second row.
C2_SingularKeyUnique ==
    \A i, j \in DOMAIN Store :
        ( /\ Store[i].relationship \in Singular(Engine)
          /\ Store[i].subject = Store[j].subject
          /\ Store[i].relationship = Store[j].relationship )
        => i = j

\* C3: learn_fact on a singular relationship whose key holds a row that is
\* not immutable replaces the row's fact, source and timestamp and returns
\* UPDATED (the code's name: UPDATED_BELIEF); CONFLICT_WITH_CONSTANT is
\* returned only when an immutable row exists.
C3_MutableSingularUpdated ==
    (IsLearn(last) /\ Lower(last.relationship) \in Singular(last.engine)) =>
        LET before == SelectKey(last.pre, Lower(last.subject),
                                Lower(last.relationship))
            after == SelectKey(Store, Lower(last.subject),
                               Lower(last.relationship))
        IN  /\ (before # <<>> /\ \A i \in DOMAIN before : ~before[i].is_immutable)
                => /\ last.result = "UPDATED_BELIEF"
                   /\ Len(after) = 1
                   /\ after[1].fact = last.fact
                   /\ after[1].source = "user"
                   /\ \A i \in DOMAIN before :
                          after[1].timestamp > before[i].timestamp
            /\ last.result = "CONFLICT_WITH_CONSTANT"
                => \E i \in DOMAIN before : before[i].is_immutable

\* C4: on a plural relationship, learn_fact called twice in a row with the
\* same (subject, relationship, fact), the table not holding the fact
\* before, returns LEARNED_SUCCESSFULLY and then ALREADY_KNOWN; the second
\* call leaves the table as it was, and the query of the key returns the
\* fact exactly once (phase-9 engine).
C4_LearnTwicePlural ==
    ( /\ IsLearn(prev) /\ IsLearn(last)
      /\ last.engine = "kg9"
      /\ prev.subject = last.subject
      /\ prev.relationship = last.relationship
      /\ prev.fact = last.fact
      /\ Lower(last.relationship) \notin KG9_singular_relationships
      /\ ~Contains(prev.pre, prev.subject, prev.relationship, prev.fact) )
    => /\ prev.result = "LEARNED_SUCCESSFULLY"
       /\ last.result = "ALREADY_KNOWN"
       /\ kg9 = last.pre
       /\ Occurrences(KG9_query_facts(kg9, last.subject, last.relationship),
                      last.fact) = 1

C4_Witness ==
    /\ IsLearn(prev) /\ IsLearn(last)
    /\ last.engine = "kg9"
    /\ prev.subject = "car" /\ last.subject = "car"
    /\ prev.relationship = "has_part" /\ last.relationship = "has_part"
    /\ prev.fact = "door" /\ last.fact = "door"
    /\ ~Contains(prev.pre, "car", "has_part", "door")
    /\ last.result = "ALREADY_KNOWN"

\* C5: on a plural relationship, two learn_fact calls in a row for one key
\* with two distinct facts that the table does not hold both return
\* LEARNED_SUCCESSFULLY, also when the key has immutable seeded rows, and
\* the query of the key then returns what it returned before, followed by
\* the two facts in the order of the calls.
C5_TwoDistinctPluralFacts ==
    ( /\ IsLearn(prev) /\ IsLearn(last)
      /\ Lower(prev.subject) = Lower(last.subject)
      /\ Lower(prev.relationship) = Lower(last.relationship)
      /\ Lower(prev.fact) # Lower(last.fact)
      /\ Lower(last.relationship) \notin Singular(last.engine)
      /\ ~Contains(prev.pre, prev.subject, prev.relationship, prev.fact)
      /\ ~Contains(prev.pre, last.subject, last.relationship, last.fact) )
    => /\ prev.result = "LEARNED_SUCCESSFULLY"
       /\ last.result = "LEARNED_SUCCESSFULLY"
       /\ Query(last.engine, Store, last.subject, last.relationship)
            = Query(last.engine, prev.pre, last.subject, last.relationship)
                \o <<prev.fact, last.fact>>

\* the same statement, of the phase-9 engine alone
C5_TwoDistinctPluralFacts_KG9 ==
    Engine = "kg9" => C5_TwoDistinctPluralFacts

\* Test 2 of the phase-9 file, twice: two parts learned after the seeded ones
C5_Witness_KG9 ==
    /\ IsLearn(prev) /\ IsLearn(last)
    /\ last.engine = "kg9"
    /\ Lower(prev.subject) = "car" /\ Lower(last.subject) = "car"
    /\ prev.relationship = "has_part" /\ last.relationship = "has_part"
    /\ prev.fact = "door" /\ last.fact = "round"
    /\ KG9_query_facts(kg9, "car", "has_part")
         = <<"engine", "wheel", "door", "round">>

\* C6: on the plural relationships no two rows of the table share
\* (subject, relationship, fact), in every reachable state (phase-9 engine);
\* rows with different facts do coexist for one key (the witness).
C6_PluralFactUnique ==
    Engine = "kg9" =>
        \A i, j \in DOMAIN kg9 :
            ( /\ kg9[i].relationship \notin KG9_singular_relationships
              /\ kg9[i].subject = kg9[j].subject
              /\ kg9[i].relationship = kg9[j].relationship
              /\ kg9[i].fact = kg9[j].fact )
            => i = j

\* three parts of the car side by side, and a fourth statement of one of
\* them refused
C6_Witness ==
    /\ Engine = "kg9"
    /\ Len(SelectKey(kg9, "car", "has_part")) >= 3
    /\ IsLearn(last)
    /\ Lower(last.subject) = "car"
    /\ last.relationship = "has_part"
    /\ last.result = "ALREADY_KNOWN"

\* C7: an immutable row is never replaced or deleted: every row that was
\* immutable before the last call, and before the call preceding it, is
\* still in the table, unchanged and immutable (both engines).
C7_ImmutableKept ==
    /\ last.op # "none" =>
          \A i \in DOMAIN last.pre :
              last.pre[i].is_immutable =>
                  \E j \in DOMAIN Store : Store[j] = last.pre[i]
    /\ prev.op # "none" =>
          \A i \in DOMAIN prev.pre :
              prev.pre[i].is_immutable =>
                  \E j \in DOMAIN Store : Store[j] = prev.pre[i]

\* a belief was replaced, then a constant was challenged
C7_Witness ==
    /\ IsLearn(prev) /\ IsLearn(last)
    /\ last.engine = "kg10"
    /\ prev.result = "UPDATED_BELIEF"
    /\ last.result = "CONFLICT_WITH_CONSTANT"
    /\ \E j \in DOMAIN kg10 : kg10[j].is_immutable /\ kg10[j].fact = "round"

-----------------------------------------------------------------------------
(* Properties of the response engines.                                     *)

\* the decision list of the six rules
RuleHolds(n, th) ==
    CASE n = 1 -> th.mood = "declarative_fact" /\ th.learning_fact # None
      [] n = 2 -> th.mood = "interrogative_fact" /\ th.query_fact # None
      [] n = 3 -> th.tone = "sarcastic"
      [] n = 4 -> th.mood = "interrogative"
      [] n = 5 -> th.attribute # None
      [] OTHER -> TRUE

FirstRule(th) ==
    CHOOSE n \in 1..6 : RuleHolds(n, th) /\ \A m \in 1..(n - 1) : ~RuleHolds(m, th)

\* the rule a reply of sclm_final_interactive.py is the text of
RuleOfReply(reply) ==
    CASE reply[1] \in {"Okay, I've learned that the ",
                       "I had trouble remembering that. Could you try phrasing it differently?"}
            -> 1
      [] reply[1] \in {"Based on what I know, the ",
                       "I'm sorry, I don't have any information about the "}
            -> 2
      [] reply[1] = "Oh no, that sounds frustrating. I hope everything is okay!"
            -> 3
      [] reply[1] = "That's a good question. I'm not sure what the answer is."
            -> 4
      [] Len(reply) > 1 /\ reply[2] = " certainly seems to be " -> 5
      [] reply[1] = "I understand. Thank you for telling me." -> 6
      [] OTHER -> 0

\* C8: the reply of generate_response is the reply of the lowest-numbered
\* rule whose condition holds, for every thought, and nothing of a later
\* rule is done: the engine is asked to learn under rule 1 alone and is
\* queried under rule 2 alone.
C8_FirstRuleWins ==
    last.op = "respond" =>
        /\ RuleOfReply(last.reply) = FirstRule(last.thought)
        /\ last.calls = (IF FirstRule(last.thought) = 1 THEN <<"learn_fact">>
                         ELSE IF FirstRule(last.thought) = 2 THEN <<"query_fact">>
                         ELSE <<>>)

\* a sarcastic statement of a fact gets the reply of rule 1
C8_Witness ==
    /\ last.op = "respond"
    /\ last.reply = <<"Okay, I've learned that the ", "shape", " of ", "ball",
                      " is ", "door", ".">>
    /\ last.thought.tone = "sarcastic"
    /\ last.thought.mood = "declarative_fact"
    /\ last.thought.learning_fact = <<"ball", "shape", "door">>
    /\ last.thought.attribute = "fast"

IsTurn(c) == c.op = "turn"

\* C9: when the learn_fact of a declarative_fact turn returns
\* CONFLICT_WITH_CONSTANT, the reply holds every fact the table has for the
\* key, it is not the reply of a fact learned or updated, and the table is
\* as before the turn.
C9_ConflictReply ==
    ( /\ IsTurn(last)
      /\ last.thought.mood = "declarative_fact"
      /\ last.result = "CONFLICT_WITH_CONSTANT" )
    => LET subject == last.thought.learning_fact[1]
           rel == last.thought.learning_fact[2]
           existing == SelectKey(last.pre, Lower(subject), Lower(rel))
       IN  /\ existing # <<>>
           /\ \A i \in DOMAIN existing :
                  \E k \in DOMAIN last.reply : last.reply[k] = existing[i].fact
           /\ last.reply[1] \notin
                  {"Okay, I've learned that the ",
                   "Okay, I've updated my belief. I now understand that the "}
           /\ Store = last.pre

\* "the shape of ball is door" against the seeded (ball, shape, round)
C9_Witness ==
    /\ IsTurn(last)
    /\ last.engine = "kg10"
    /\ last.result = "CONFLICT_WITH_CONSTANT"
    /\ last.reply = <<"That's interesting, but my understanding is that the ",
                      "shape", " of ", "ball", " is ", "round", ".">>
    /\ last.thought.learning_fact = <<"ball", "shape", "door">>

\* C10: an interrogative_fact turn with query_fact (subject, relationship)
\* replies with "is" and the fact when the table has one fact for the key,
\* with "are" and all the facts in the table's order, ", " between them and
\* ", and " before the last, when it has several, and with the
\* no-information sentence when it has none.
C10_QueryReply ==
    (IsTurn(last) /\ last.thought.mood = "interrogative_fact") =>
        LET subject == last.thought.query_fact[1]
            rel == last.thought.query_fact[2]
            rows == SelectKey(last.pre, Lower(subject), Lower(rel))
            n == Len(rows)
            head(verb) == <<"Based on what I know, the ", rel, " of ", subject,
                            " ", verb, ": ">>
            body == SubSeq(last.reply, 8, Len(last.reply) - 1)
        IN  /\ n = 0 => last.reply = <<"I don't have any information about the ",
                                       rel, " of ", subject, ".">>
            /\ n = 1 => last.reply = head("is") \o <<rows[1].fact, ".">>
            /\ n > 1 => /\ SubSeq(last.reply, 1, 7) = head("are")
                        /\ last.reply[Len(last.reply)] = "."
                        /\ Len(body) = 2 * n - 1
                        /\ \A k \in 1..n : body[2 * k - 1] = rows[k].fact
                        /\ \A k \in 1..(n - 2) : body[2 * k] = ", "
                        /\ body[2 * (n - 1)] = ", and "

\* the parts of the car, the seeded two and one learned: "are", a comma, "and"
C10_Witness ==
    /\ IsTurn(last)
    /\ last.engine = "kg9"
    /\ last.reply = <<"Based on what I know, the ", "has_part", " of ", "car",
                      " ", "are", ": ", "engine", ", ", "wheel", ", and ",
                      "door", ".">>
    /\ last.thought.query_fact = <<"car", "has_part">>

-----------------------------------------------------------------------------
(* Properties of query_facts.                                              *)

\* the rows whose subject and relationship are s and r but for the case
MatchingRows(kb, s, r) ==
    SelectSeq(kb, LAMBDA x : /\ Lower(x.subject) = Lower(s)
                             /\ Lower(x.relationship) = Lower(r))

\* C18: query_facts(subject, relationship) returns the facts of exactly the
\* rows whose subject and relationship equal the arguments but for the case,
\* in the order the rows were inserted (the empty list when there is none),
\* and leaves the table as it was.
C18_QueryFacts ==
    last.op = "query" =>
        LET rows == MatchingRows(last.pre, last.subject, last.relationship)
        IN  /\ last.result = [i \in DOMAIN rows |-> rows[i].fact]
            /\ Store = last.pre

\* "Car" is asked for after a part was learned: the seeded parts, then the
\* learned one
C18_Witness ==
    /\ last.op = "query"
    /\ last.engine = "kg9"
    /\ last.subject = "Car"
    /\ last.relationship = "has_part"
    /\ last.result = <<"engine", "wheel", "Door">>

-----------------------------------------------------------------------------
(* Properties of the life of an engine.                                    *)

Constants(engine) == IF engine = "kg9" THEN KG9_constants ELSE KG10_constants

\* the table holds the constants and nothing else, each immutable and of
\* source System_Constant
Seeded(engine, kb) ==
    /\ Len(kb) = Len(Constants(engine))
    /\ \A i \in DOMAIN kb :
           /\ kb[i].subject = Lower(Constants(engine)[i][1])
           /\ kb[i].relationship = Lower(Constants(engine)[i][2])
           /\ kb[i].fact = Constants(engine)[i][3]
           /\ kb[i].is_immutable
           /\ kb[i].source = "System_Constant"

\* the rows without the time they were written at
Untimed(kb) ==
    [i \in DOMAIN kb |-> <<kb[i].subject, kb[i].relationship, kb[i].fact,
                            kb[i].is_immutable, kb[i].source>>]

\* C19: the engine constructed on an empty file holds the constants, each
\* immutable and of source System_Constant, and an engine constructed on a
\* file that has rows leaves every row of the table as it found it, the
\* rows learn_fact wrote among them.
C19_SeedingIdempotent ==
    /\ last.op = "none" => Seeded(Engine, Store)
    /\ last.op = "connect" => Untimed(Store) = Untimed(last.pre)

\* C19 of the engine of sclm_phase_9_knowledge.py alone
C19_SeedingIdempotent_KG9 ==
    Engine = "kg9" => C19_SeedingIdempotent

\* C20: a close() that follows a close() returns as the first did, raises
\* nothing, and leaves the connection closed and the table as it was.
C20_CloseTwice ==
    (last.op = "close" /\ prev.op = "close") =>
        /\ last.result = Returned
        /\ last.result = prev.result
        /\ connection = "closed"
        /\ Store = last.pre

\* close() was called on the connection that close() had closed
C20_Witness ==
    /\ last.op = "close"
    /\ prev.op = "close"
    /\ last.subject = "closed"
    /\ prev.subject = "open"

-----------------------------------------------------------------------------
(* Properties of learn_fact on a shared database file.                     *)

\* C16: with several sessions on one database file, a learn_fact that
\* writes finds, when it writes, the rows of its key that its SELECT had
\* fetched (its check and its write are one critical section), and no two
\* rows of a plural relationship share (subject, relationship, fact).  (The
\* singular keys of a single session are C2.)
C16_LearnCriticalSection ==
    /\ ( /\ last.op = "learn"
         /\ last.result \in {"LEARNED_SUCCESSFULLY", "UPDATED_BELIEF"} )
       => SelectKey(last.pre, Lower(last.subject), Lower(last.relationship))
              = last.seen
    /\ \A i, j \in DOMAIN Store :
           ( /\ Store[i].relationship \notin Singular(Engine)
             /\ Store[i].subject = Store[j].subject
             /\ Store[i].relationship = Store[j].relationship
             /\ Store[i].fact = Store[j].fact )
           => i = j

-----------------------------------------------------------------------------
(* Properties of the tone engine.                                          *)

\* the word stands in the sentence, letter for letter but for the case
Occurs(word, sentence) ==
    \E i \in DOMAIN sentence :
        /\ i + Len(word) - 1 <= Len(sentence)
        /\ \A k \in DOMAIN word : LowerChar(sentence[i + k - 1]) = word[k]

\* C12: analyze_thought leaves tone sarcastic when the lowercased sentence
\* holds one of great, perfect, fantastic, wonderful, lovely and the action
\* is one of spill, break, lose, forget, drop, and neutral in every other
\* case, whatever tone the thought came with; the other keys stay.
C12_ToneSarcasticIff ==
    (last.op = "tone" /\ pc = "done") =>
        LET before == last.before
            positive == \E k \in DOMAIN sarcastic_positives :
                            Occurs(sarcastic_positives[k], before.input_sentence)
            negative == before.action \in
                            {"spill", "break", "lose", "forget", "drop"}
        IN  /\ thought.tone = IF positive /\ negative THEN "sarcastic"
                              ELSE "neutral"
            /\ thought.input_sentence = before.input_sentence
            /\ thought.action = before.action

\* "GREAT, I lost it." with the action lose came in neutral and left
\* sarcastic
C12_Witness ==
    /\ last.op = "tone"
    /\ pc = "done"
    /\ last.before.input_sentence = GreatILostIt
    /\ last.before.action = "lose"
    /\ last.before.tone = "neutral"
    /\ thought.tone = "sarcastic"

-----------------------------------------------------------------------------
(* Properties of the dialogue managers.                                    *)

\* C11: when the agent of the thought is "it" in any case, the history is
\* not empty and its last thought has an object, _resolve_context leaves
\* that object as the agent of the thought.
C11_ItResolvedToObject ==
    [][ ( /\ pc = "resolve"
          /\ IsIt(thought.agent)
          /\ conversation_history # <<>>
          /\ Truthy(conversation_history[Len(conversation_history)].object) )
        => thought'.agent
             = conversation_history[Len(conversation_history)].object ]_vars

\* "IT is greatly broken." after "I dropped the ball.": the agent IT has
\* become the ball
C11_Witness ==
    /\ pc = "nuance"
    /\ thought.input_sentence = ItIsGreatlyBroken
    /\ thought.agent = "the ball"
    /\ conversation_history # <<>>
    /\ conversation_history[Len(conversation_history)].agent = "I"
    /\ conversation_history[Len(conversation_history)].object = "the ball"

\* C13: the thought of the turn is not in the history while the stages up
\* to the Response Decider run (the history is the one the turn started
\* from until generate_response has returned), and it is there, appended
\* to that history, when the turn has ended.
C13_AppendAfterReply ==
    /\ pc \in {"resolve", "nuance", "tone", "append", "respond"}
          => conversation_history = last.history
    /\ (pc = "idle" /\ last.op = "turn")
          => conversation_history = Append(last.before, last.thought)

\* C14: a turn whose learn or query call failed leaves the history as it
\* was before the turn, lets no exception through and returns the reply
\* of a failure.
C14_FailedTurnAtomic ==
    (last.op = "turn" /\ last.failure # "none") =>
        /\ conversation_history = last.before
        /\ ~last.raised
        /\ last.reply \in
              {<<"I had trouble remembering that. Could you try phrasing it differently?">>}

\* C15: a turn that states or asks for a fact while the store is closed
\* (its learn or query call fails) ends with a reply returned to the
\* caller, never with an exception, and the manager is ready for the next
\* message.
C15_StoreFailureReply ==
    ( /\ last.op = "turn"
      /\ last.thought.mood \in {"declarative_fact", "interrogative_fact"}
      /\ last.failure # "none" )
    => /\ ~last.raised
       /\ last.reply # None
       /\ pc = "idle"

\* C17: when no call is in progress the history holds one thought per call
\* that has ended, and a step either leaves the history as it is or puts
\* the thought of the turn in progress after the thoughts it holds.
C17_HistoryAppendOnly ==
    /\ [](pc = "idle" => Len(conversation_history) = turns)
    /\ [][ \/ conversation_history' = conversation_history
           \/ /\ Len(conversation_history') = Len(conversation_history) + 1
              /\ SubSeq(conversation_history', 1, Len(conversation_history))
                    = conversation_history
              /\ conversation_history'[Len(conversation_history')] = thought
       ]_vars

\* two turns have ended: the resolved, enriched thought of the second
\* stands after the thought of the first
C17_Witness ==
    /\ pc = "idle"
    /\ turns = 2
    /\ Len(conversation_history) = 2
    /\ conversation_history[1].input_sentence = IDroppedTheBall
    /\ conversation_history[2].input_sentence = ItIsFast
    /\ conversation_history[2].agent = "the ball"

-----------------------------------------------------------------------------
(* Thoughts that break the parser's contract.                              *)

\* a factual mood without its fact
LacksFact(th) ==
    \/ th.mood = "declarative_fact" /\ th.learning_fact = None
    \/ th.mood = "interrogative_fact" /\ th.query_fact = None

\* C21: for a thought with a factual mood and without the matching fact
\* generate_response asks nothing of the engine and returns a reply of its
\* own for the case, none of the replies of the six rules.
C21_LacksFactReply ==
    (last.op = "respond" /\ LacksFact(last.thought)) =>
        /\ last.calls = <<>>
        /\ RuleOfReply(last.reply) = 0

-----------------------------------------------------------------------------
(* Nothing is forgotten.                                                   *)

\* the facts a query of the key returns, as a set, letter case apart
Known(engine, kb, s, r) ==
    LET facts == Query(engine, kb, s, r)
    IN  {Lower(facts[i]) : i \in DOMAIN facts}

\* C22: no call deletes a row: the table never gets shorter, and on a plural
\* relationship every fact the query of a key returned before the call is
\* still returned after it (both engines).
C22_NothingForgotten ==
    last.op \in {"learn", "query"} =>
        /\ Len(Store) >= Len(last.pre)
        /\ \A s \in Subjects, r \in Relationships :
              Lower(r) \notin Singular(last.engine) =>
                  Known(last.engine, last.pre, s, r)
                      \subseteq Known(last.engine, Store, s, r)

\* the same statement, of the phase-9 engine alone
C22_NothingForgotten_KG9 ==
    Engine = "kg9" => C22_NothingForgotten

-----------------------------------------------------------------------------
(* Properties of the context resolver.                                     *)

\* the last thought of a history that is not empty
LastThought == conversation_history[Len(conversation_history)]

\* C23: when the agent of the thought is "it" in any case, the history is
\* not empty and its last thought has no object but has an agent,
\* _resolve_context leaves that agent as the agent of the thought.
C23_ItResolvedToAgent ==
    [][ ( /\ pc = "resolve"
          /\ IsIt(thought.agent)
          /\ conversation_history # <<>>
          /\ ~Truthy(LastThought.object)
          /\ Truthy(LastThought.agent) )
        => thought'.agent = LastThought.agent ]_vars

\* "It is fast." after "The cat walked.": the agent It has become the cat
C23_Witness ==
    /\ pc = "nuance"
    /\ thought.input_sentence = ItIsFast
    /\ thought.agent = "The cat"
    /\ conversation_history # <<>>
    /\ LastThought.input_sentence = TheCatWalked
    /\ LastThought.object = None
    /\ LastThought.agent = "The cat"

\* C24: _resolve_context reads the thought of the turn and the last thought
\* of the history and nothing else: it returns what it returns for the
\* history cut down to its last thought; it writes no field but the agent;
\* and it returns the thought as it got it when the agent is not "it", when
\* the history is empty, and when the last thought of the history has
\* neither an object nor an agent, whatever the thoughts before it hold.
C24_ResolveReadsLastOnly ==
    [][ pc = "resolve" =>
          /\ thought' = DM_resolve_context(thought,
                            IF conversation_history = <<>> THEN <<>>
                            ELSE <<LastThought>>)
          /\ DOMAIN thought' = DOMAIN thought
          /\ \A k \in DOMAIN thought \ {"agent"} : thought'[k] = thought[k]
          /\ ( \/ ~IsIt(thought.agent)
               \/ conversation_history = <<>>
               \/ ~Truthy(LastThought.object) /\ ~Truthy(LastThought.agent) )
             => thought' = thought ]_vars

\* "I dropped the ball.", then a statement of fact, whose thought has neither
\* an object nor an agent, then "It is fast.": the agent is still It
C24_Witness ==
    /\ pc = "nuance"
    /\ thought.input_sentence = ItIsFast
    /\ thought.agent = "It"
    /\ Len(conversation_history) = 2
    /\ conversation_history[1].object = "the ball"
    /\ conversation_history[2].input_sentence = TheShapeOfBallIsDoor
    /\ conversation_history[2].object = None
    /\ conversation_history[2].agent = None

-----------------------------------------------------------------------------
(* Which rule writes, which rule reads.                                    *)

\* the rule a reply of sclm_phase_10_interactive_graph.py is the text of
RE10_RuleOfReply(reply) ==
    CASE reply[1] \in {"Okay, I've learned that the ",
                       "Okay, I've updated my belief. I now understand that the ",
                       "That's interesting, but my understanding is that the "}
           -> 1
      [] reply[1] \in {"Based on what I know, the ",
                       "I don't have any information about the "}
           -> 2
      [] Len(reply) > 1 /\ reply[2] = " certainly seems to be " -> 5
      [] reply = <<"I understand. Thank you for telling me.">> -> 6
      [] OTHER -> 0

\* C25: a turn changes the table only under rule 1: a turn whose thought is
\* not a statement of fact calls no learn_fact and leaves every row as it
\* was, a turn that ends with a reply of rule 2, 5 or 6 leaves every row as
\* it was, and a turn that ends with the reply of rule 5 or 6 has asked the
\* engine no question.
C25_OnlyLearningWrites ==
    IsTurn(last) =>
        /\ ~RuleHolds(1, last.thought) =>
              last.result = None /\ Store = last.pre
        /\ RE10_RuleOfReply(last.reply) # 1 => Store = last.pre
        /\ RE10_RuleOfReply(last.reply) \in {5, 6} => last.answers = None
        /\ RE10_RuleOfReply(last.reply) # 0

\* a question answered from a fact that an earlier turn had put there, the
\* table as the question found it
C25_Witness ==
    /\ IsTurn(last)
    /\ RE10_RuleOfReply(last.reply) = 2
    /\ last.answers # <<>>
    /\ last.thought.query_fact = <<"car", "has_part">>
    /\ \E i \in DOMAIN Store : Store[i].source = "user"
    /\ Store = last.pre

\* the same of sclm_final_interactive.py, by the calls made on the engine:
\* learn_fact is called under rule 1 alone, and rules 3 to 6 call nothing
C25_OnlyLearningWrites_Final ==
    last.op = "respond" =>
        /\ FirstRule(last.thought) # 1 =>
              \A k \in DOMAIN last.calls : last.calls[k] # "learn_fact"
        /\ FirstRule(last.thought) >= 3 => last.calls = <<>>

-----------------------------------------------------------------------------
(* Where immutable rows come from.                                         *)

\* the table _initialize_database made for the engine
StartOf(engine) == IF engine = "kg9" THEN KG9Start.kb ELSE KG10Start.kb

\* C26: a row is immutable exactly when it is one of the rows that
\* _initialize_database wrote, with the source System_Constant; a row that
\* learn_fact writes is not immutable, and a row that was not immutable
\* before a call has no immutable row in its place after it (both engines).
C26_ImmutableIffSeeded ==
    /\ \A i \in DOMAIN Store :
          /\ Store[i].is_immutable <=> Store[i].source = "System_Constant"
          /\ Store[i].is_immutable <=>
                (i \in DOMAIN StartOf(Engine) /\ Store[i] = StartOf(Engine)[i])
    /\ IsLearn(last) =>
          /\ \A j \in DOMAIN Store :
                (\A i \in DOMAIN last.pre : last.pre[i] # Store[j])
                    => ~Store[j].is_immutable
          /\ \A i \in DOMAIN last.pre, j \in DOMAIN Store :
                ( /\ ~last.pre[i].is_immutable
                  /\ Store[j].subject = last.pre[i].subject
                  /\ Store[j].relationship = last.pre[i].relationship
                  /\ Store[j].fact = last.pre[i].fact )
                => ~Store[j].is_immutable

\* a belief learned on a singular relationship and then replaced or joined
\* by another: the rows of the user are not immutable, the constants are
C26_Witness ==
    /\ IsLearn(prev) /\ IsLearn(last)
    /\ prev.result = "LEARNED_SUCCESSFULLY"
    /\ last.result \in {"LEARNED_SUCCESSFULLY", "UPDATED_BELIEF"}
    /\ Lower(prev.subject) = "car" /\ Lower(last.subject) = "car"
    /\ prev.relationship = "shape" /\ last.relationship = "shape"
    /\ \E j \in DOMAIN Store : Store[j].source = "user" /\ ~Store[j].is_immutable
    /\ \E j \in DOMAIN Store : Store[j].is_immutable

-----------------------------------------------------------------------------
(* Letter case in learn_fact.                                              *)

\* C27: on a plural relationship, learn_fact called with a subject, a
\* relationship and a fact that a row of the table has, but for the case of
\* the letters, returns ALREADY_KNOWN and leaves the table as it was; and
\* the subject and the relationship of every row of the table are in lower
\* case (phase-9 engine).
C27_LearnIgnoresCase ==
    /\ ( /\ IsLearn(last)
         /\ Lower(last.relationship) \notin KG9_singular_relationships
         /\ \E i \in DOMAIN last.pre :
                /\ Lower(last.pre[i].subject) = Lower(last.subject)
                /\ Lower(last.pre[i].relationship) = Lower(last.relationship)
                /\ Lower(last.pre[i].fact) = Lower(last.fact) )
       => last.result = "ALREADY_KNOWN" /\ kg9 = last.pre
    /\ \A i \in DOMAIN kg9 :
          /\ kg9[i].subject = Lower(kg9[i].subject)
          /\ kg9[i].relationship = Lower(kg9[i].relationship)

\* the door of the car learned in lower case, then stated again with
\* capitals in all three parts
C27_Witness ==
    /\ IsLearn(prev) /\ IsLearn(last)
    /\ prev.subject = "car" /\ prev.relationship = "has_part"
    /\ prev.fact = "door"
    /\ prev.result = "LEARNED_SUCCESSFULLY"
    /\ last.subject = "Car" /\ last.relationship = "Has_Part"
    /\ last.fact = "Door"
    /\ last.result = "ALREADY_KNOWN"
    /\ kg9 = last.pre

-----------------------------------------------------------------------------
(* Properties of the nuance engine.                                        *)

\* C28: analyze_thought of the nuance engine returns the thought with the
\* keys it had and with every field but urgency and mood_connotation as it
\* was; when the action is a key of verb_connotations the two fields are
\* the values of the table, and when it is not, or there is no action, the
\* thought is returned as it came, the two fields included.
C28_NuanceOnlyKnownVerbs ==
    (pc = "done" /\ last.op = "nuance") =>
        LET before == last.before
            action_verb == Get(before.action, None)
        IN  /\ DOMAIN thought = DOMAIN before
            /\ \A k \in DOMAIN before \ {"urgency", "mood_connotation"} :
                   thought[k] = before[k]
            /\ IF action_verb \in {"race", "rush", "hurry", "walk", "stroll",
                                   "wander", "chase", "write", "eat"}
               THEN /\ thought.urgency = verb_connotations[action_verb].urgency
                    /\ thought.mood_connotation
                          = verb_connotations[action_verb].mood
               ELSE thought = before

\* a verb that is not in the table, with an urgency set before the call
C28_Witness ==
    /\ pc = "done"
    /\ last.op = "nuance"
    /\ last.before.action = "drop"
    /\ last.before.urgency = "high"
    /\ last.before.mood_connotation = "stressed"
    /\ thought.urgency = "high"
    /\ thought.mood_connotation = "stressed"

-----------------------------------------------------------------------------
(* After close().                                                          *)

\* C29: once close() has been called the manager stays closed and processes
\* no turn: no step puts a thought in the history and no call of
\* handle_message ends with a turn made.
C29_ClosedIsTerminal ==
    [][ connection = "closed" =>
          /\ connection' = "closed"
          /\ conversation_history' = conversation_history
          /\ turns' = turns ]_vars

-----------------------------------------------------------------------------
(* Properties of the parsers.                                              *)

\* C30: in every thought parse_sentence returns, of either file, the mood is
\* declarative_fact exactly when learning_fact is not None, the mood is
\* interrogative_fact exactly when query_fact is not None, and the two
\* facts are never both there; so with any other mood both are None.
C30_MoodMatchesFact ==
    pc = "done" =>
        /\ thought.mood = "declarative_fact" <=> thought.learning_fact # None
        /\ thought.mood = "interrogative_fact" <=> thought.query_fact # None
        /\ thought.learning_fact = None \/ thought.query_fact = None

\* "What are the parts of car?" read by pattern 3 of semantic_parser.py
C30_Witness ==
    /\ pc = "done"
    /\ last.parser = "semantic_parser"
    /\ last.doc.nsubj = "What"
    /\ last.doc.attr = "parts"
    /\ thought.mood = "interrogative_fact"
    /\ thought.learning_fact = None
    /\ thought.query_fact = <<"car", "parts">>

-----------------------------------------------------------------------------
(* Pronouns from turn to turn.                                             *)

\* C31: the history holds the thought of a turn as _resolve_context left
\* it.  When the turn before had the agent "it", resolved to an antecedent,
\* and the agent of this turn is "it": if the turn before had no object,
\* this turn's agent becomes that same antecedent; if it had an object,
\* this turn's agent becomes that object.
C31_ResolutionChains ==
    [][ ( /\ pc = "resolve"
          /\ IsIt(thought.agent)
          /\ conversation_history # <<>>
          /\ IsIt(ParsedOf(LastThought.input_sentence).agent) )
        => LET n == Len(conversation_history)
               parsed_thought == ParsedOf(LastThought.input_sentence)
               antecedent ==
                   DM_resolve_context(parsed_thought,
                                      SubSeq(conversation_history, 1, n - 1)).agent
           IN  /\ (~IsIt(antecedent) /\ ~Truthy(parsed_thought.object))
                     => thought'.agent = antecedent
               /\ Truthy(parsed_thought.object)
                     => thought'.agent = parsed_thought.object ]_vars

\* "The cat walked.", "It is fast.", "IT is greatly broken.": the cat is
\* the agent of the second turn and of the third
C31_Witness ==
    /\ pc = "nuance"
    /\ Len(conversation_history) = 2
    /\ conversation_history[1].input_sentence = TheCatWalked
    /\ conversation_history[2].input_sentence = ItIsFast
    /\ conversation_history[2].agent = "The cat"
    /\ conversation_history[2].object = None
    /\ thought.input_sentence = ItIsGreatlyBroken
    /\ thought.agent = "The cat"

-----------------------------------------------------------------------------
(* The conflict check reads the first row.                                 *)

\* C32: in the table of the phase-9 engine the immutable rows of a key come
\* before its rows that are not immutable; so when learn_fact finds rows
\* for the key, the first of them is immutable exactly when one of them
\* is, and CONFLICT_WITH_CONSTANT is returned exactly when the relationship
\* is singular and the key has an immutable row.
C32_FirstRowDecides ==
    Engine = "kg9" =>
        /\ \A i, j \in DOMAIN kg9 :
              ( /\ kg9[i].subject = kg9[j].subject
                /\ kg9[i].relationship = kg9[j].relationship
                /\ kg9[i].is_immutable
                /\ ~kg9[j].is_immutable )
              => i < j
        /\ IsLearn(last) =>
              LET existing_facts == SelectKey(last.pre, Lower(last.subject),
                                              Lower(last.relationship))
                  some == \E i \in DOMAIN existing_facts :
                              existing_facts[i].is_immutable
              IN  /\ existing_facts # <<>> =>
                        (existing_facts[1].is_immutable <=> some)
                  /\ last.result = "CONFLICT_WITH_CONSTANT" <=>
                        ( /\ Lower(last.relationship)
                                \in KG9_singular_relationships
                          /\ some )

\* a learn on the parts of the car, a key whose rows are the two constants
\* followed by a part the user stated
C32_Witness ==
    /\ IsLearn(last)
    /\ last.engine = "kg9"
    /\ Lower(last.subject) = "car"
    /\ last.relationship = "has_part"
    /\ LET existing_facts == SelectKey(last.pre, "car", "has_part")
       IN  /\ Len(existing_facts) = 3
           /\ existing_facts[1].is_immutable
           /\ existing_facts[2].is_immutable
           /\ ~existing_facts[3].is_immutable

====
